---- MODULE Spec2Model ----
(***************************************************************************)
(* Water Sort Screenshot Solver: the puzzle solver (solver.js, called from *)
(* main.js solveAndRender), the solve driver that sweeps the extra-bottle  *)
(* budget, and the color reconciler of the vision worker                   *)
(* (clusterColorsDbscan + mergeClustersToExpectedCount).                   *)
(***************************************************************************)
EXTENDS Integers, Sequences, FiniteSets, TLC

(***************************************************************************)
(* Bounds of the model.                                                    *)
(***************************************************************************)
MaxBottles == 3      \* bottles detected on a board (before extra bottles)
MaxCap == 2          \* slots per bottle
NumColors == 2       \* color ids 0 .. NumColors-1
MaxTokens == 4       \* filled slots on a board
MaxExtra == 1        \* largest add-bottles count read by the badge OCR
MaxRocks == 1        \* rock (blocked) bottles on a board
MaxLimit == 2        \* largest of the small maxStates values tried

(***************************************************************************)
(* Program constants.                                                      *)
(***************************************************************************)
DEFAULT_MAX_STATES == 200000
MIN_MAX_STATES == 1000

Null == -1           \* JavaScript null: an empty slot, "no value"
Colors == 0 .. (NumColors - 1)

Max(a, b) == IF a >= b THEN a ELSE b
Min(a, b) == IF a <= b THEN a ELSE b

RECURSIVE SumSeq(_)
SumSeq(s) == IF s = <<>> THEN 0 ELSE Head(s) + SumSeq(Tail(s))

Reverse(s) == [i \in 1 .. Len(s) |-> s[Len(s) + 1 - i]]

(***************************************************************************)
(* solver.js: boards are arrays of stacks, each stack bottom -> top.       *)
(* parseResult.bottle_contents_ids holds each bottle top -> bottom with    *)
(* null for an empty slot.                                                 *)
(***************************************************************************)
ContentsToStacksTopBottom(slots, cap) ==
  Reverse(SelectSeq(slots, LAMBDA x : x # Null))

StacksToContentsTopBottom(stack, cap) ==
  [i \in 1 .. cap |->
     IF i <= cap - Len(stack) THEN Null ELSE stack[cap + 1 - i]]

Top(stack) == stack[Len(stack)]

\* number of contiguous same-color slots from the top of a non-empty stack
RECURSIVE RunLength(_)
RunLength(stack) ==
  IF Len(stack) <= 1 THEN Len(stack)
  ELSE IF stack[Len(stack) - 1] = stack[Len(stack)]
       THEN 1 + RunLength(SubSeq(stack, 1, Len(stack) - 1))
       ELSE 1

\* a source bottle may be poured from: rock bottles never are
CanPourFromAnyBottle(stacks, rockSet, src) == Len(stacks[src + 1]) > 0

CanPourFrom(stacks, rockSet, src) ==
  src \notin rockSet /\ Len(stacks[src + 1]) > 0

IsLegal(stacks, cap, rockSet, src, dst) ==
  /\ src # dst
  /\ CanPourFrom(stacks, rockSet, src)
  /\ Len(stacks[dst + 1]) < cap
  /\ (Len(stacks[dst + 1]) = 0 \/ Top(stacks[dst + 1]) = Top(stacks[src + 1]))

\* the move src -> dst of a state; amt = 0 marks "not legal"
MoveOf(stacks, cap, rockSet, src, dst) ==
  IF IsLegal(stacks, cap, rockSet, src, dst)
  THEN [src |-> src, dst |-> dst, color |-> Top(stacks[src + 1]),
        amt |-> Min(RunLength(stacks[src + 1]), cap - Len(stacks[dst + 1]))]
  ELSE [src |-> src, dst |-> dst, color |-> Null, amt |-> 0]

\* all legal moves of a state, ascending src, then ascending dst
LegalMoves(stacks, cap, rockSet) ==
  LET n == Len(stacks)
      cand == [k \in 1 .. n * n |->
                 MoveOf(stacks, cap, rockSet, (k - 1) \div n, (k - 1) % n)]
  IN SelectSeq(cand, LAMBDA m : m.amt > 0)

\* pops without removing the tokens from the source
ApplyMoveKeepSource(stacks, mv) ==
  [i \in 1 .. Len(stacks) |->
     IF i = mv.dst + 1
     THEN stacks[i] \o SubSeq(stacks[mv.src + 1],
                              Len(stacks[mv.src + 1]) - mv.amt + 1,
                              Len(stacks[mv.src + 1]))
     ELSE stacks[i]]

\* pops mv.amt tokens off the source and pushes them onto the destination
ApplyMove(stacks, mv) ==
  [i \in 1 .. Len(stacks) |->
     IF i = mv.src + 1
     THEN SubSeq(stacks[i], 1, Len(stacks[i]) - mv.amt)
     ELSE IF i = mv.dst + 1
     THEN stacks[i] \o SubSeq(stacks[mv.src + 1],
                              Len(stacks[mv.src + 1]) - mv.amt + 1,
                              Len(stacks[mv.src + 1]))
     ELSE stacks[i]]

\* a stack is mono when it holds at most one color
IsMonoStack(stack) == \A i, j \in 1 .. Len(stack) : stack[i] = stack[j]

\* "full" reading: every bottle is empty or full of one color
IsGoalFullOnly(stacks, cap) ==
  \A i \in 1 .. Len(stacks) :
    IsMonoStack(stacks[i]) /\ Len(stacks[i]) \in {0, cap}

\* goalMode 'mono': no bottle mixes two colors, whatever its fill level
IsGoal(stacks, cap) ==
  \A i \in 1 .. Len(stacks) : IsMonoStack(stacks[i])
(***************************************************************************)
(* solveBfs(init, cap, rockSet, {maxStates, goalMode: 'mono'}):            *)
(* breadth-first search over boards.  parent maps every visited board to   *)
(* its predecessor link; the queue holds the boards still to expand.       *)
(***************************************************************************)
NoMove == [src |-> Null, dst |-> Null, color |-> Null, amt |-> 0]

REASON_NONE == ""
REASON_LIMIT == "stateLimitExceeded"
REASON_EXHAUSTED == "noSolution"

\* the move path from the root to board s, by backtracking the links
RECURSIVE PathTo(_, _)
PathTo(s, parent) ==
  IF parent[s].root THEN <<>>
  ELSE Append(PathTo(parent[s].prev, parent), parent[s].mv)

\* takes the newest board of the queue (a stack: depth-first order)
DequeueNewest(queue) ==
  [state |-> queue[Len(queue)], rest |-> SubSeq(queue, 1, Len(queue) - 1)]

\* takes the oldest board of the queue (first in, first out)
Dequeue(queue) == [state |-> Head(queue), rest |-> Tail(queue)]

\* inverted comparison: stops while the budget is not yet used
LimitReachedInverted(explored, maxStates) == explored <= maxStates

LimitReached(explored, maxStates) == explored >= maxStates

\* keeps the path to the board at the front of the queue
LimitResultWithPath(queue, parent, explored) ==
  [solved |-> FALSE, moves |-> PathTo(queue[Len(queue)], parent),
   explored |-> explored, reason |-> REASON_LIMIT]

LimitResult(queue, parent, explored) ==
  [solved |-> FALSE, moves |-> <<>>, explored |-> explored,
   reason |-> REASON_LIMIT]

ExhaustedResult(explored) ==
  [solved |-> FALSE, moves |-> <<>>, explored |-> explored,
   reason |-> REASON_EXHAUSTED]

SolvedResult(s, parent, explored) ==
  [solved |-> TRUE, moves |-> PathTo(s, parent), explored |-> explored,
   reason |-> REASON_NONE]

\* enqueue the successors of s that were not visited before
RECURSIVE Expand(_, _, _, _, _)
Expand(s, moves, i, queue, parent) ==
  IF i > Len(moves) THEN [queue |-> queue, parent |-> parent]
  ELSE LET t == ApplyMove(s, moves[i])
       IN IF t \in DOMAIN parent
          THEN Expand(s, moves, i + 1, queue, parent)
          ELSE Expand(s, moves, i + 1, Append(queue, t),
                      (t :> [root |-> FALSE, prev |-> s, mv |-> moves[i]])
                         @@ parent)

RECURSIVE BfsLoop(_, _, _, _, _, _)
BfsLoop(queue, parent, explored, cap, rockSet, maxStates) ==
  IF queue = <<>> THEN ExhaustedResult(explored)
  ELSE IF LimitReached(explored, maxStates)
  THEN LimitResult(queue, parent, explored)
  ELSE LET d == Dequeue(queue)
           s == d.state
       IN IF IsGoal(s, cap) THEN SolvedResult(s, parent, explored + 1)
          ELSE LET x == Expand(s, LegalMoves(s, cap, rockSet), 1, d.rest,
                               parent)
               IN BfsLoop(x.queue, x.parent, explored + 1, cap, rockSet,
                          maxStates)

SolveBfs(init, cap, rockSet, maxStates) ==
  BfsLoop(<<init>>, (init :> [root |-> TRUE, prev |-> init, mv |-> NoMove]),
          0, cap, rockSet, maxStates)
(***************************************************************************)
(* Reference for the solver's results: a search by whole levels over the   *)
(* legal pours.                                                            *)
(***************************************************************************)
\* no bottle of the board holds two different colors
NoMixedBottle(stacks) ==
  \A i \in 1 .. Len(stacks) :
    Cardinality({stacks[i][k] : k \in 1 .. Len(stacks[i])}) <= 1

SuccessorsOf(s, c, rocks) ==
  {ApplyMove(s, LegalMoves(s, c, rocks)[i]) :
     i \in 1 .. Len(LegalMoves(s, c, rocks))}

\* search by whole levels: the depth of the nearest board without a mixed
\* bottle (-1 when there is none) and the number of boards up to that depth
RECURSIVE LevelSearch(_, _, _, _, _)
LevelSearch(frontier, seen, depth, c, rocks) ==
  IF \E s \in frontier : NoMixedBottle(s)
  THEN [dist |-> depth, ball |-> Cardinality(seen)]
  ELSE IF frontier = {} THEN [dist |-> -1, ball |-> Cardinality(seen)]
  ELSE LET nxt == (UNION {SuccessorsOf(s, c, rocks) : s \in frontier}) \ seen
       IN LevelSearch(nxt, seen \cup nxt, depth + 1, c, rocks)

Nearest(init, c, rocks) == LevelSearch({init}, {init}, 0, c, rocks)

(***************************************************************************)
(* State.                                                                  *)
(***************************************************************************)
VARIABLES
  board,         \* solve: the initial board (stacks bottom -> top)
  cap,           \* solve: capacity shared by all bottles
  rockSet,       \* solve: indices (0-based) of the blocked bottles
  maxStates,     \* solve: the limit of the latest call, 0 before any call
  info,          \* solve: result of the latest call
  results,       \* solve: [limit, info] of every call so far, in order
  nearest,       \* solve: Nearest(board, cap, rockSet), the reference
  cur,           \* pours: the current board
  prevBoard,     \* pours: the board before the latest pour
  lastMove,      \* pours: the latest pour
  parseResult,   \* main.js: result of the vision worker, augmented by OCR
  pc,            \* main.js solveAndRender: position in the handler
  e,             \* solveAndRender: loop counter (extra bottles of this try)
  allowedExtra,  \* solveAndRender: getExtraBottlesFromPowerup()
  lastInfo,      \* solveAndRender: info of the latest try
  lastInitial,   \* solveAndRender: board of the latest try
  chosenInfo,    \* solveAndRender: info kept
  chosenInitial, \* solveAndRender: board kept
  calls,         \* solveAndRender: the solveBfs calls made by this click
  shown,         \* renderOutput(chosenInitial, finalStacks, chosenInfo)
  samples,       \* worker: Lab triple of every filled-slot sample
  msgCapacity,   \* worker: capacity field of the analyze message
  rCap,          \* worker: capacity handed to the reconciler
  rLabels,       \* worker: cluster id of every sample
  clusterInfo,   \* worker: id -> [id, count, sum_lab] (center = sum / count)
  merges,        \* mergeClustersToExpectedCount: merges done, in order
  expectedColors,\* mergeClustersToExpectedCount: nSamples / cap, or Null
  lastMerged,    \* the counts of the two clusters of the latest merge
  rpc,           \* worker: position in buildResult's color step
  reply,         \* worker: type of the message posted for the request
  candidates,    \* enforceFixedBottleGrid: the candidate boxes handed in
  boxes,         \* enforceFixedBottleGrid: the candidates kept for the grid
  wMed,          \* enforceFixedBottleGrid: median width, in units
  hMed,          \* enforceFixedBottleGrid: median height, in units
  preds,         \* enforceFixedBottleGrid: the six predicted cells
  matchOf,       \* per cell, the index in boxes of the matched candidate
  assign,        \* enforceFixedBottleGrid: the box of every cell, or NoBox
  origin,        \* per cell, where its box comes from
  probed,        \* the cells detectBottleNear was called for
  gpi,           \* enforceFixedBottleGrid: index of the re-detection loop
  gpc,           \* enforceFixedBottleGrid: position in the function
  gridOut,       \* enforceFixedBottleGrid: the boxes returned
  imageBitmap,   \* main.js: the decoded image (0: null), with lastImageData
  decoding,      \* loadImageFromFile: files at the createImageBitmap await
  imagesPicked,  \* number of files picked so far (names the images)
  parsedFrom,    \* main.js parseResult: the image it describes (0: null)
  overlayOf,     \* the image the overlay canvas describes (0: cleared)
  legendSize,    \* number of items in the legend
  legendSelected,\* legendSelectedId is not null
  isAnalyzing,   \* main.js isAnalyzing
  analyzeRequestId,       \* main.js analyzeRequestId
  activeAnalyzeRequestId, \* main.js activeAnalyzeRequestId
  btnAnalyzeDisabled,     \* btnAnalyze.disabled
  btnSolveDisabled,       \* btnSolve.disabled
  statusLine,    \* statusLine.textContent, by kind of text
  visionWorker,  \* main.js visionWorker is not null
  toWorker,      \* analyze messages posted to the worker, not yet received
  running,       \* the request the worker is busy with, or NoRun
  fromWorker,    \* worker messages not yet delivered to the page
  ocrPending,    \* onVisionResult calls at the badge OCR await
  lastMessage,   \* the message w.onmessage ran for last, or NoMsg
  wInbox,        \* worker: messages not yet handed to self.onmessage
  isBusy,        \* worker isBusy
  currentRequestId, \* worker currentRequestId
  cvPromise,     \* worker cvPromise: the cached load (0: null)
  loads,         \* per loadOpenCv promise: state, settling signal, late
  importCount,   \* number of importScripts(opencv.js) calls
  reactions,     \* promise reactions queued as microtasks, in order
  wpc,           \* self.onmessage: position of the accepted analysis
  awaited,       \* the promise the accepted analysis awaits (0: none)
  posted,        \* the messages the worker posted, in order
  accepted,      \* the analyze messages accepted so far, in order
  lastCall       \* the latest loadOpenCv call: cache before, value returned

solveVars == <<board, cap, rockSet, maxStates, info, results, nearest>>
pourVars == <<cur, prevBoard, lastMove>>
driverVars == <<parseResult, pc, e, allowedExtra, lastInfo, lastInitial,
                chosenInfo, chosenInitial, calls, shown>>
reconVars == <<samples, msgCapacity, rCap, rLabels, clusterInfo, merges,
               expectedColors, lastMerged, rpc, reply>>
gridVars == <<candidates, boxes, wMed, hMed, preds, matchOf, assign, origin,
              probed, gpi, gpc, gridOut>>
pageVars == <<imageBitmap, decoding, imagesPicked, parsedFrom, overlayOf,
              legendSize, legendSelected, isAnalyzing, analyzeRequestId,
              activeAnalyzeRequestId, btnAnalyzeDisabled, btnSolveDisabled,
              statusLine, visionWorker, toWorker, running, fromWorker,
              ocrPending, lastMessage>>
workerVars == <<wInbox, isBusy, currentRequestId, cvPromise, loads,
                importCount, reactions, wpc, awaited, posted, accepted,
                lastCall>>
vars == <<solveVars, pourVars, driverVars, reconVars, gridVars, pageVars,
          workerVars>>
notSolve == <<pourVars, driverVars, reconVars, gridVars, pageVars,
              workerVars>>
notPour == <<solveVars, driverVars, reconVars, gridVars, pageVars,
             workerVars>>
notDriver == <<solveVars, pourVars, reconVars, gridVars, pageVars,
               workerVars>>
notRecon == <<solveVars, pourVars, driverVars, gridVars, pageVars,
              workerVars>>
notGrid == <<solveVars, pourVars, driverVars, reconVars, pageVars,
             workerVars>>
notPage == <<solveVars, pourVars, driverVars, reconVars, gridVars,
             workerVars>>
notWorker == <<solveVars, pourVars, driverVars, reconVars, gridVars,
               pageVars>>

NoInfo == [solved |-> FALSE, moves |-> <<>>, explored |-> 0,
           reason |-> "notRun"]

(***************************************************************************)
(* Inputs: boards with at most MaxTokens filled slots.                     *)
(***************************************************************************)
StacksUpTo(c) == UNION {[1 .. k -> Colors] : k \in 0 .. c}

RECURSIVE BoardsWith(_, _, _)
BoardsWith(n, c, t) ==
  IF n = 0 THEN {<<>>}
  ELSE UNION {{Append(b, s) : b \in BoardsWith(n - 1, c, t - Len(s))} :
              s \in StacksUpTo(Min(c, t))}

\* the tokens of a board in bottle order, each bottle bottom -> top
RECURSIVE Flatten(_)
Flatten(stacks) ==
  IF stacks = <<>> THEN <<>> ELSE Head(stacks) \o Flatten(Tail(stacks))

\* Color ids are compared for equality only, so boards are drawn up to a
\* renaming of the ids: ids appear in order of first occurrence.
FirstOccurrenceOrder(flat) ==
  \A p \in 1 .. Len(flat) :
    flat[p] = 0 \/ \E q \in 1 .. p - 1 : flat[q] >= flat[p] - 1

Boards(n, c) ==
  {b \in BoardsWith(n, c, MaxTokens) : FirstOccurrenceOrder(Flatten(b))}

RockSets(n) == {r \in SUBSET (0 .. n - 1) : Cardinality(r) <= MaxRocks}

MaxStatesOfPage == Max(MIN_MAX_STATES, DEFAULT_MAX_STATES)
Limits == (1 .. MaxLimit) \cup {MaxStatesOfPage}

NoNearest == [dist |-> -1, ball |-> 0]
SolveIdle ==
  /\ board = <<>> /\ cap = 0 /\ rockSet = {} /\ maxStates = 0
  /\ info = NoInfo /\ results = <<>> /\ nearest = NoNearest
PourIdle == cur = <<>> /\ prevBoard = <<>> /\ lastMove = NoMove
NoParse == [capacity |-> 0, bottle_contents_ids |-> <<>>,
            rock_bottles |-> {}, add_bottles |-> Null]
NoShown == [initial |-> <<>>, final |-> <<>>, info |-> NoInfo]

REPLY_NONE == "none"
REPLY_RESULT == "result"
REPLY_ERROR == "error"

NoMerge == [keep |-> Null, drop |-> Null, keepCount |-> 0, dropCount |-> 0]
ReconIdle ==
  /\ samples = <<>> /\ msgCapacity = 0 /\ rCap = 0 /\ rLabels = <<>>
  /\ clusterInfo = <<>> /\ merges = <<>> /\ expectedColors = Null
  /\ lastMerged = NoMerge /\ rpc = "idle" /\ reply = REPLY_NONE

GridIdle ==
  /\ candidates = <<>> /\ boxes = <<>> /\ wMed = 0 /\ hMed = 0
  /\ preds = <<>> /\ matchOf = <<>> /\ assign = <<>> /\ origin = <<>>
  /\ probed = {} /\ gpi = 0 /\ gpc = "idle" /\ gridOut = <<>>

NoRun == [requestId |-> 0, image |-> 0]
NoMsg == [type |-> "none", requestId |-> 0, image |-> 0]
PageIdle ==
  /\ imageBitmap = 0 /\ decoding = {} /\ imagesPicked = 0
  /\ parsedFrom = 0 /\ overlayOf = 0 /\ legendSize = 0
  /\ legendSelected = FALSE /\ isAnalyzing = FALSE
  /\ analyzeRequestId = 0 /\ activeAnalyzeRequestId = 0
  /\ btnAnalyzeDisabled = TRUE /\ btnSolveDisabled = TRUE
  /\ statusLine = "initial" /\ visionWorker = FALSE /\ toWorker = <<>>
  /\ running = NoRun /\ fromWorker = <<>> /\ ocrPending = 0
  /\ lastMessage = NoMsg

NoCall == [n |-> 0, cached |-> 0, returned |-> 0]
WorkerIdle ==
  /\ wInbox = <<>> /\ isBusy = FALSE /\ currentRequestId = Null
  /\ cvPromise = 0 /\ loads = <<>> /\ importCount = 0
  /\ reactions = <<>> /\ wpc = "idle" /\ awaited = 0 /\ posted = <<>>
  /\ accepted = <<>> /\ lastCall = NoCall

DriverLocalsIdle ==
  /\ pc = "idle" /\ e = 0 /\ allowedExtra = 0
  /\ lastInfo = NoInfo /\ lastInitial = <<>> /\ chosenInfo = NoInfo
  /\ chosenInitial = <<>>
DriverIdle ==
  /\ parseResult = NoParse /\ DriverLocalsIdle /\ calls = <<>>
  /\ shown = NoShown

(***************************************************************************)
(* SpecSolve: solveBfs applied to a board under growing maxStates.         *)
(***************************************************************************)
InitSolve ==
  /\ cap = MaxCap
  /\ board \in Boards(MaxBottles, MaxCap)
  /\ rockSet \in RockSets(MaxBottles)
  /\ maxStates = 0 /\ info = NoInfo /\ results = <<>>
  /\ nearest = Nearest(board, cap, rockSet)
  /\ PourIdle /\ DriverIdle /\ ReconIdle /\ GridIdle
  /\ PageIdle /\ WorkerIdle

\* one call of solveBfs, with the next larger limit
Solve(m) ==
  /\ m > maxStates
  /\ \A k \in Limits : k > maxStates => m <= k
  /\ maxStates' = m
  /\ info' = SolveBfs(board, cap, rockSet, m)
  /\ results' = Append(results, [limit |-> m, info |-> info'])
  /\ UNCHANGED <<board, cap, rockSet, nearest, notSolve>>

NextSolve == \E m \in Limits : Solve(m)

SpecSolve == InitSolve /\ [][NextSolve]_vars

(***************************************************************************)
(* SpecPour: every legal pour from every board reachable by pours.         *)
(***************************************************************************)
InitPour ==
  /\ cap = MaxCap
  /\ rockSet \in {{}, {0}}
  /\ board = <<>>
  /\ cur \in Boards(MaxBottles, MaxCap)
  /\ prevBoard = cur /\ lastMove = NoMove
  /\ maxStates = 0 /\ info = NoInfo /\ results = <<>>
  /\ nearest = NoNearest
  /\ DriverIdle /\ ReconIdle /\ GridIdle
  /\ PageIdle /\ WorkerIdle

Pour ==
  /\ \E i \in 1 .. Len(LegalMoves(cur, cap, rockSet)) :
       /\ lastMove' = LegalMoves(cur, cap, rockSet)[i]
       /\ cur' = ApplyMove(cur, LegalMoves(cur, cap, rockSet)[i])
  /\ prevBoard' = cur
  /\ UNCHANGED notPour

NextPour == Pour

SpecPour == InitPour /\ [][NextPour]_vars
(***************************************************************************)
(* SpecDriver: main.js solveAndRender, one step per loop iteration.        *)
(***************************************************************************)
DriverBottles == MaxBottles - 1

GetExtraBottlesFromPowerup(pr) ==
  IF pr.add_bottles # Null /\ pr.add_bottles >= 0 THEN pr.add_bottles ELSE 0

AddExtraEmptyBottles(stacks, extra) ==
  stacks \o [k \in 1 .. extra |-> <<>>]

\* the slots of every bottle bottom -> top, the empty ones included
SlotsBottomTop(pr) ==
  [i \in 1 .. Len(pr.bottle_contents_ids) |->
     Reverse(pr.bottle_contents_ids[i])]

BaseStacks(pr) ==
  [i \in 1 .. Len(pr.bottle_contents_ids) |->
     ContentsToStacksTopBottom(pr.bottle_contents_ids[i], pr.capacity)]

\* the solver is told of no rock bottle
RockSetEmpty(pr) == {}

\* const rockSet = new Set(parseResult.rock_bottles || [])
RockSetOf(pr) == pr.rock_bottles

WithExtra(inf, used, allowed) ==
  [solved |-> inf.solved, moves |-> inf.moves, explored |-> inf.explored,
   reason |-> inf.reason, extraUsed |-> used, extraAllowed |-> allowed]

\* chosenInfo.moves.reduce((st, mv) => applyMove(st, mv), chosenInitial)
RECURSIVE Replay(_, _)
Replay(stacks, moves) ==
  IF moves = <<>> THEN stacks
  ELSE Replay(ApplyMove(stacks, Head(moves)), Tail(moves))

\* the loop stops one try short of the allowed maximum
LoopContinuesBelow(k, allowed) == k < allowed

\* for (let e = 0; e <= allowedExtra; e++)
LoopContinues(k, allowed) == k <= allowed

ParseResults ==
  {[capacity |-> MaxCap,
    bottle_contents_ids |->
      [i \in 1 .. Len(b) |-> StacksToContentsTopBottom(b[i], MaxCap)],
    rock_bottles |-> r,
    add_bottles |-> a] :
   b \in Boards(DriverBottles, MaxCap), r \in RockSets(DriverBottles),
   a \in {Null} \cup (0 .. MaxExtra)}

InitDriver ==
  /\ parseResult \in ParseResults
  /\ DriverLocalsIdle /\ calls = <<>> /\ shown = NoShown
  /\ SolveIdle /\ PourIdle /\ ReconIdle /\ GridIdle
  /\ PageIdle /\ WorkerIdle

\* click on Solve: the handler's prologue
SolveClick ==
  /\ pc = "idle"
  /\ parseResult # NoParse
  /\ allowedExtra' = GetExtraBottlesFromPowerup(parseResult)
  /\ e' = 0
  /\ lastInfo' = NoInfo /\ lastInitial' = <<>>
  /\ chosenInfo' = NoInfo /\ chosenInitial' = <<>>
  /\ calls' = <<>>
  /\ pc' = "loop"
  /\ UNCHANGED <<parseResult, shown, notDriver>>

\* one iteration of the loop: solve with e extra empty bottles
TryExtra ==
  /\ pc = "loop"
  /\ LoopContinues(e, allowedExtra)
  /\ LET init == AddExtraEmptyBottles(BaseStacks(parseResult), e)
         inf == WithExtra(SolveBfs(init, parseResult.capacity,
                                   RockSetOf(parseResult), MaxStatesOfPage),
                          e, allowedExtra)
     IN /\ lastInfo' = inf
        /\ lastInitial' = init
        /\ calls' = Append(calls, [e |-> e, init |-> init,
                                   solved |-> inf.solved])
        /\ IF inf.solved
           THEN /\ chosenInfo' = inf /\ chosenInitial' = init
                /\ pc' = "render" /\ e' = e
           ELSE /\ UNCHANGED <<chosenInfo, chosenInitial>>
                /\ pc' = "loop" /\ e' = e + 1
  /\ UNCHANGED <<parseResult, allowedExtra, shown, notDriver>>

\* the loop ends without a solved try
LoopExit ==
  /\ pc = "loop"
  /\ ~LoopContinues(e, allowedExtra)
  /\ pc' = "render"
  /\ UNCHANGED <<parseResult, e, allowedExtra, lastInfo, lastInitial,
                 chosenInfo, chosenInitial, calls, shown, notDriver>>

\* the handler's epilogue: fall back to the last try, replay, render
Render ==
  /\ pc = "render"
  /\ LET chInfo == IF chosenInfo = NoInfo THEN lastInfo ELSE chosenInfo
         chInit == IF chosenInfo = NoInfo THEN lastInitial ELSE chosenInitial
         finalStacks == IF chInfo # NoInfo /\ chInfo.solved
                        THEN Replay(chInit, chInfo.moves) ELSE <<>>
     IN shown' = [initial |-> chInit, final |-> finalStacks, info |-> chInfo]
  /\ pc' = "idle" /\ e' = 0 /\ allowedExtra' = 0
  /\ lastInfo' = NoInfo /\ lastInitial' = <<>>
  /\ chosenInfo' = NoInfo /\ chosenInitial' = <<>>
  /\ UNCHANGED <<parseResult, calls, notDriver>>

NextDriver == SolveClick \/ TryExtra \/ LoopExit \/ Render

SpecDriver == InitDriver /\ [][NextDriver]_vars
(***************************************************************************)
(* SpecBoard: the page between the result of the vision worker and the     *)
(* solver.  The contents of a bottle are sampled slot by slot, the slots   *)
(* over a rock pile forced empty; the user may merge two detected colors   *)
(* or delete one, and solve the board at any time.                         *)
(***************************************************************************)
\* sampleBottleSlots: the slots of a bottle top -> bottom, for a bottle whose
\* liquid (bottom -> top) rests on a rock pile that covers the rockRows
\* lowest slots; a slot over the pile is forced empty
SampleBottleSlots(liquid, rockRows, c) ==
  [si \in 1 .. c |->
     IF si > c - rockRows THEN Null
     ELSE IF c - rockRows - si + 1 <= Len(liquid)
          THEN liquid[c - rockRows - si + 1]
          ELSE Null]

\* the heights of the rock piles a board can rest on, per bottle
RockRows(b) ==
  {rr \in [1 .. Len(b) -> 0 .. MaxCap] :
     /\ Cardinality({j \in 1 .. Len(b) : rr[j] > 0}) <= MaxRocks
     /\ \A j \in 1 .. Len(b) : rr[j] + Len(b[j]) <= MaxCap}

\* the ids of the tokens of a board
IdsOn(b) == UNION {{b[i][k] : k \in 1 .. Len(b[i])} : i \in 1 .. Len(b)}

\* buildResult: the result for a board; a bottle with a pile is a rock
\* bottle, and the palette holds the ids of the filled slots
SampledResult(b, rows, a) ==
  [capacity |-> MaxCap,
   bottle_contents_ids |->
     [i \in 1 .. Len(b) |-> SampleBottleSlots(b[i], rows[i], MaxCap)],
   colors_by_id |-> IdsOn(b),
   color_unit_counts |->
     [c \in IdsOn(b) |->
        SumSeq([i \in 1 .. Len(b) |->
                  Cardinality({k \in 1 .. Len(b[i]) : b[i][k] = c})])],
   num_colors |-> Cardinality(IdsOn(b)),
   rock_bottles |-> {j - 1 : j \in {i \in 1 .. Len(b) : rows[i] > 0}},
   add_bottles |-> a]

SampledResults ==
  UNION {{SampledResult(b, rows, a) : rows \in RockRows(b), a \in {Null, 0}} :
         b \in Boards(DriverBottles, MaxCap)}

InitBoard ==
  /\ parseResult \in SampledResults
  /\ DriverLocalsIdle /\ calls = <<>> /\ shown = NoShown
  /\ SolveIdle /\ PourIdle /\ ReconIdle /\ GridIdle
  /\ PageIdle /\ WorkerIdle

\* b.map((cid) => (cid === d ? to : cid)) on every bottle
ReplaceId(contents, d, to) ==
  [i \in 1 .. Len(contents) |->
     [s \in 1 .. Len(contents[i]) |->
        IF contents[i][s] = d THEN to ELSE contents[i][s]]]

\* renderOutput(stacks, null, null) after an edit of the palette
Rerendered(pr) == [initial |-> BaseStacks(pr), final |-> <<>>, info |-> NoInfo]

\* the kept color keeps its own count
MergedCountsKeepOnly(counts, k, d) ==
  [c \in (DOMAIN counts) \ {d} |-> counts[c]]

\* color_unit_counts[k] = cK + cD; delete color_unit_counts[d]
MergedCounts(counts, k, d) ==
  [c \in (DOMAIN counts) \ {d} |->
     IF c = k THEN counts[k] + counts[d] ELSE counts[c]]

\* the second click on the legend: mergeDetectedColors(keepId, dropId)
MergeDetectedColors ==
  /\ pc = "idle" /\ parseResult # NoParse
  /\ \E k, d \in parseResult.colors_by_id :
       /\ k # d
       /\ parseResult' =
            [parseResult EXCEPT
               !.colors_by_id = @ \ {d},
               !.color_unit_counts = MergedCounts(@, k, d),
               !.num_colors = Cardinality(parseResult.colors_by_id \ {d}),
               !.bottle_contents_ids = ReplaceId(@, d, k)]
  /\ shown' = Rerendered(parseResult')
  /\ UNCHANGED <<e, allowedExtra, lastInfo, lastInitial, chosenInfo,
                 chosenInitial, calls, pc, notDriver>>

\* deleteDetectedColor(colorId)
DeleteDetectedColor ==
  /\ pc = "idle" /\ parseResult # NoParse
  /\ \E d \in parseResult.colors_by_id :
       parseResult' =
         [parseResult EXCEPT
            !.colors_by_id = @ \ {d},
            !.color_unit_counts = [c \in (DOMAIN @) \ {d} |-> @[c]],
            !.num_colors = Cardinality(parseResult.colors_by_id \ {d}),
            !.bottle_contents_ids = ReplaceId(@, d, Null)]
  /\ shown' = Rerendered(parseResult')
  /\ UNCHANGED <<e, allowedExtra, lastInfo, lastInitial, chosenInfo,
                 chosenInitial, calls, pc, notDriver>>

NextBoard ==
  \/ MergeDetectedColors \/ DeleteDetectedColor
  \/ SolveClick \/ TryExtra \/ LoopExit \/ Render

SpecBoard == InitBoard /\ [][NextBoard]_vars
(***************************************************************************)
(* Vision worker, color step of buildResult: clusterColorsDbscan followed  *)
(* by mergeClustersToExpectedCount.  Samples are Lab triples (the output   *)
(* of cv.cvtColor).  A center is kept as the pair (sum of the members,     *)
(* count): the count-weighted mean the code recomputes at every merge is   *)
(* sum / count, and distances are compared exactly by cross-multiplying.   *)
(***************************************************************************)
MaxSamples == 4
DEFAULT_DBSCAN_EPS == 16
DEFAULT_CAPACITY == 4

\* onmessage: (typeof capacity === 'number' && capacity > 0) ? capacity : 4
CapacityOf(c) == IF c > 0 THEN c ELSE DEFAULT_CAPACITY

\* Lab values the samples are drawn from: pairs at distance 0, within eps,
\* between eps and the merge ceiling (two of them at the same distance, 17),
\* and far apart
LabPoints == {<<33, 0, 0>>, <<50, 0, 0>>, <<62, 0, 0>>, <<68, 0, 0>>,
              <<50, 17, 0>>, <<120, 90, 90>>}

SqDist(a, b) ==
  (a[1] - b[1]) * (a[1] - b[1]) + (a[2] - b[2]) * (a[2] - b[2])
    + (a[3] - b[3]) * (a[3] - b[3])

\* dist(labs[p], labs[j]) <= eps
WithinEps(a, b, eps) == SqDist(a, b) <= eps * eps

\* labels only the samples within eps of the samples on the stack
FloodDirect(labs, labels, stack, cid, eps) ==
  [j \in 1 .. Len(labs) |->
     IF /\ labels[j] = -1
        /\ \E k \in 1 .. Len(stack) : WithinEps(labs[stack[k]], labs[j], eps)
     THEN cid
     ELSE labels[j]]

\* flood fill of cluster cid from the samples on the stack (queue.pop())
RECURSIVE Flood(_, _, _, _, _)
Flood(labs, labels, stack, cid, eps) ==
  IF stack = <<>> THEN labels
  ELSE LET p == stack[Len(stack)]
           rest == SubSeq(stack, 1, Len(stack) - 1)
           new == {j \in 1 .. Len(labs) :
                     labels[j] = -1 /\ WithinEps(labs[p], labs[j], eps)}
           labels2 == [j \in 1 .. Len(labs) |->
                         IF j \in new THEN cid ELSE labels[j]]
           pushed == SelectSeq([j \in 1 .. Len(labs) |-> j],
                               LAMBDA j : j \in new)
       IN Flood(labs, labels2, rest \o pushed, cid, eps)

RECURSIVE DbscanFrom(_, _, _, _, _)
DbscanFrom(labs, labels, i, cid, eps) ==
  IF i > Len(labs) THEN labels
  ELSE IF labels[i] # -1 THEN DbscanFrom(labs, labels, i + 1, cid, eps)
  ELSE DbscanFrom(labs,
                  Flood(labs, [labels EXCEPT ![i] = cid], <<i>>, cid, eps),
                  i + 1, cid + 1, eps)

SumLab(labs, idxs) ==
  LET s == [k \in 1 .. 3 |->
              SumSeq([j \in 1 .. Len(labs) |->
                        IF j \in idxs THEN labs[j][k] ELSE 0])]
  IN s

ClusterColorsDbscan(labs, eps) ==
  LET labels == DbscanFrom(labs, [j \in 1 .. Len(labs) |-> -1], 1, 0, eps)
      ids == {labels[j] : j \in 1 .. Len(labs)}
  IN [labels |-> labels,
      clusterInfo |->
        [k \in ids |->
           LET idxs == {j \in 1 .. Len(labs) : labels[j] = k}
           IN [id |-> k, count |-> Cardinality(idxs),
               sum_lab |-> SumLab(labs, idxs)]]]

\* labDist3 of two centers, as the fraction DistNum / DistDen of its square
DistNum(a, b) ==
  SqDist([k \in 1 .. 3 |-> a.sum_lab[k] * b.count],
         [k \in 1 .. 3 |-> b.sum_lab[k] * a.count])
DistDen(a, b) == (a.count * b.count) * (a.count * b.count)

\* maxDist = Math.max(8.0, eps * 1.2), times 5
MaxDistTimes5(eps) == Max(40, 6 * eps)

\* d <= maxDist
WithinMaxDist(a, b, eps) ==
  25 * DistNum(a, b) <= MaxDistTimes5(eps) * MaxDistTimes5(eps) * DistDen(a, b)

\* a pair is eligible whatever its combined count
FitsAnyCount(a, b, c) == TRUE

\* if (a.count + b.count > cap) continue;
FitsCapacity(a, b, c) == a.count + b.count <= c

Eligible(ci, c, eps) ==
  {p \in (DOMAIN ci) \X (DOMAIN ci) :
     /\ p[1] < p[2]
     /\ FitsCapacity(ci[p[1]], ci[p[2]], c)
     /\ WithinMaxDist(ci[p[1]], ci[p[2]], eps)}

\* d(p) < d(q)
Closer(ci, p, q) ==
  DistNum(ci[p[1]], ci[p[2]]) * DistDen(ci[q[1]], ci[q[2]])
    < DistNum(ci[q[1]], ci[q[2]]) * DistDen(ci[p[1]], ci[p[2]])

LexBefore(p, q) == p[1] < q[1] \/ (p[1] = q[1] /\ p[2] <= q[2])

\* the scan over i < j keeps the first eligible pair
FirstPair(ci, c, eps) ==
  CHOOSE p \in Eligible(ci, c, eps) :
    \A q \in Eligible(ci, c, eps) : LexBefore(p, q)

\* the scan over i < j keeps the first pair of the smallest distance
BestPair(ci, c, eps) ==
  CHOOSE p \in Eligible(ci, c, eps) :
    \A q \in Eligible(ci, c, eps) :
      Closer(ci, p, q) \/ (~Closer(ci, q, p) /\ LexBefore(p, q))

MergeIntoLabels(labels, keepId, dropId) ==
  [j \in 1 .. Len(labels) |-> IF labels[j] = dropId THEN keepId ELSE labels[j]]

\* the kept cluster does not take the members of the dropped one
MergeIntoInfoKeepCount(ci, keepId, dropId) ==
  [k \in (DOMAIN ci) \ {dropId} |-> ci[k]]

MergeIntoInfo(ci, keepId, dropId) ==
  [k \in (DOMAIN ci) \ {dropId} |->
     IF k = keepId
     THEN [id |-> keepId, count |-> ci[keepId].count + ci[dropId].count,
           sum_lab |-> [x \in 1 .. 3 |->
                          ci[keepId].sum_lab[x] + ci[dropId].sum_lab[x]]]
     ELSE ci[k]]

\* the loop exits one cluster above the expected count
LoopDoneOneAbove(ci, expected) == Cardinality(DOMAIN ci) <= expected + 1

\* while (Object.keys(clusterInfo).length > expectedColors)
LoopDone(ci, expected) == Cardinality(DOMAIN ci) <= expected

\* the while loop of mergeClustersToExpectedCount, run to its exit
RECURSIVE MergeLoop(_, _, _, _, _)
MergeLoop(labels, ci, c, expected, eps) ==
  IF LoopDone(ci, expected) \/ Eligible(ci, c, eps) = {}
  THEN [labels |-> labels, clusterInfo |-> ci]
  ELSE LET best == BestPair(ci, c, eps)
       IN MergeLoop(MergeIntoLabels(labels, best[1], best[2]),
                    MergeIntoInfo(ci, best[1], best[2]), c, expected, eps)

\* skips only when there is no capacity or no sample
SkipsMergeUnlessEmpty(n, c) == c <= 0 \/ n = 0

\* the early returns: if (!cap || nSamples === 0), if (nSamples % cap !== 0)
SkipsMerge(n, c) == c <= 0 \/ n = 0 \/ n % c # 0

\* the labels and the palette buildResult gets for a list of samples
Reconcile(labs, c, eps) ==
  LET r == ClusterColorsDbscan(labs, eps)
  IN IF SkipsMerge(Len(labs), c)
     THEN r
     ELSE MergeLoop(r.labels, r.clusterInfo, c, Len(labs) \div c, eps)

\* an analyze message has arrived; the slots have been sampled
InitRecon ==
  /\ \E n \in 0 .. MaxSamples : samples \in [1 .. n -> LabPoints]
  /\ msgCapacity \in -1 .. MaxCap
  /\ rCap = 0
  /\ rLabels = <<>> /\ clusterInfo = <<>> /\ merges = <<>>
  /\ expectedColors = Null /\ lastMerged = NoMerge /\ rpc = "message"
  /\ reply = REPLY_NONE
  /\ SolveIdle /\ PourIdle /\ DriverIdle /\ GridIdle
  /\ PageIdle /\ WorkerIdle

\* self.onmessage: the capacity handed to buildResult
Analyze ==
  /\ rpc = "message"
  /\ rCap' = CapacityOf(msgCapacity)
  /\ rpc' = "cluster"
  /\ UNCHANGED <<samples, msgCapacity, rLabels, clusterInfo, merges,
                 expectedColors, lastMerged, reply, notRecon>>

\* buildResult: clusterColorsDbscan(cv, samplesBgr, dbscanEps)
Cluster ==
  /\ rpc = "cluster"
  /\ LET r == ClusterColorsDbscan(samples, DEFAULT_DBSCAN_EPS)
     IN rLabels' = r.labels /\ clusterInfo' = r.clusterInfo
  /\ rpc' = "enter"
  /\ UNCHANGED <<samples, msgCapacity, rCap, merges, expectedColors,
                 lastMerged, reply, notRecon>>

\* mergeClustersToExpectedCount: the early returns
MergeEnter ==
  /\ rpc = "enter"
  /\ IF SkipsMerge(Len(rLabels), rCap)
     THEN expectedColors' = Null /\ rpc' = "done"
     ELSE expectedColors' = Len(rLabels) \div rCap /\ rpc' = "loop"
  /\ UNCHANGED <<samples, msgCapacity, rCap, rLabels, clusterInfo, merges,
                 lastMerged, reply, notRecon>>

\* one iteration of the while loop that merges
MergeStep ==
  /\ rpc = "loop"
  /\ ~LoopDone(clusterInfo, expectedColors)
  /\ Eligible(clusterInfo, rCap, DEFAULT_DBSCAN_EPS) # {}
  /\ LET best == BestPair(clusterInfo, rCap, DEFAULT_DBSCAN_EPS)
     IN /\ rLabels' = MergeIntoLabels(rLabels, best[1], best[2])
        /\ clusterInfo' = MergeIntoInfo(clusterInfo, best[1], best[2])
        /\ merges' = Append(merges, [keep |-> best[1], drop |-> best[2]])
        /\ lastMerged' = [keep |-> best[1], drop |-> best[2],
                          keepCount |-> clusterInfo[best[1]].count,
                          dropCount |-> clusterInfo[best[2]].count]
  /\ UNCHANGED <<samples, msgCapacity, rCap, expectedColors, rpc, reply,
                 notRecon>>

\* the loop ends: expected count reached, or no eligible pair (break)
MergeReturn ==
  /\ rpc = "loop"
  /\ \/ LoopDone(clusterInfo, expectedColors)
     \/ Eligible(clusterInfo, rCap, DEFAULT_DBSCAN_EPS) = {}
  /\ rpc' = "done"
  /\ UNCHANGED <<samples, msgCapacity, rCap, rLabels, clusterInfo, merges,
                 expectedColors, lastMerged, reply, notRecon>>

\* self.onmessage: postMessage({ type: 'result', ... })
PostResult ==
  /\ rpc = "done"
  /\ reply' = REPLY_RESULT
  /\ rpc' = "posted"
  /\ UNCHANGED <<samples, msgCapacity, rCap, rLabels, clusterInfo, merges,
                 expectedColors, lastMerged, notRecon>>

NextRecon ==
  Analyze \/ Cluster \/ MergeEnter \/ MergeStep \/ MergeReturn \/ PostResult

SpecRecon == InitRecon /\ [][NextRecon]_vars

(***************************************************************************)
(* Vision worker, enforceFixedBottleGrid: the candidate boxes of           *)
(* detectBottlesRobust are matched to the fixed grid of 2 rows by 3        *)
(* columns; missing cells are re-detected or synthesized.  Boxes hold      *)
(* integer pixels.  Centers, medians and distances are JavaScript          *)
(* numbers: they are kept in units of 1/Scale pixel, and a quotient is     *)
(* rounded down to a whole unit.                                           *)
(***************************************************************************)
MaxCand == 3         \* candidates of a short candidate list

Scale == 30          \* units per pixel
ImgW == 600          \* bgr.cols
ImgH == 800          \* bgr.rows
EXPECTED == 6
GRID_ROWS == 2
GRID_COLS == 3

ToUnits(px) == px * Scale

Abs(v) == IF v >= 0 THEN v ELSE 0 - v

\* Math.round of a value in units, in pixels (halves round up)
Round(v) == (2 * v + Scale) \div (2 * Scale)

\* clamp(v, lo, hi): Math.max(lo, Math.min(hi, v))
Clamp(v, lo, hi) == Max(lo, Min(hi, v))

\* clampInt(v, lo, hi) of an integer v (v | 0 is v)
ClampInt(v, lo, hi) == Max(lo, Min(hi, v))

NoBox == [x |-> -1, y |-> -1, w |-> 0, h |-> 0]

\* b.x + b.w / 2 and b.y + b.h / 2, in units
CenterX(b) == ToUnits(b.x) + (ToUnits(b.w) \div 2)
CenterY(b) == ToUnits(b.y) + (ToUnits(b.h) \div 2)

Area(b) == b.w * b.h

\* an array given by its elements, as a sequence
AsArray(f) == f \o <<>>

\* the number of elements that a stable ascending sort puts before s[i]
RankNum(s, i) ==
  Cardinality({j \in 1 .. Len(s) : s[j] < s[i] \/ (s[j] = s[i] /\ j < i)})

\* numbers in ascending order
SortNum(s) ==
  AsArray([r \in 1 .. Len(s) |->
             s[CHOOSE i \in 1 .. Len(s) : RankNum(s, i) = r - 1]])

RankByKey(s, i) ==
  Cardinality({j \in 1 .. Len(s) :
                 s[j].key < s[i].key \/ (s[j].key = s[i].key /\ j < i)})

\* Array.prototype.sort by ascending key; equal keys keep their order
SortByKey(s) ==
  AsArray([r \in 1 .. Len(s) |->
             s[CHOOSE i \in 1 .. Len(s) : RankByKey(s, i) = r - 1]])

\* the middle of a sorted array, or the mean of its two middle values
MiddleOf(a) ==
  IF Len(a) % 2 = 1 THEN a[(Len(a) \div 2) + 1]
  ELSE (a[Len(a) \div 2] + a[(Len(a) \div 2) + 1]) \div 2

\* medianNumber(arr)
MedianNumber(arr) == IF Len(arr) = 0 THEN 0 ELSE MiddleOf(SortNum(arr))

\* kmeans1D: the initial centers, at evenly spaced quantiles
KmeansInit(sorted, k) ==
  AsArray([i \in 1 .. k |->
     sorted[(((2 * (i - 1) + 1) * (Len(sorted) - 1)) \div (2 * k)) + 1]])

\* kmeans1D: the first center at the smallest distance of v
NearestCenter(v, centers) ==
  CHOOSE i \in 1 .. Len(centers) :
    /\ \A j \in 1 .. Len(centers) :
         Abs(v - centers[i]) <= Abs(v - centers[j])
    /\ \A j \in 1 .. i - 1 : Abs(v - centers[j]) > Abs(v - centers[i])

\* kmeans1D: the new centers, given the group of every value; a center
\* without value keeps its place
GroupMeans(values, centers, group) ==
  AsArray([i \in 1 .. Len(centers) |->
     IF \A j \in 1 .. Len(values) : group[j] # i THEN centers[i]
     ELSE SumSeq([j \in 1 .. Len(values) |->
                    IF group[j] = i THEN values[j] ELSE 0])
            \div Cardinality({j \in 1 .. Len(values) : group[j] = i})])

\* kmeans1D: one iteration
KmeansStep(values, centers) ==
  GroupMeans(values, centers,
             AsArray([j \in 1 .. Len(values) |->
                        NearestCenter(values[j], centers)]))

RECURSIVE KmeansIterate(_, _, _)
KmeansIterate(values, centers, iters) ==
  IF iters = 0 THEN centers
  ELSE KmeansIterate(values, KmeansStep(values, centers), iters - 1)

Kmeans1D(values, k, iters) ==
  SortNum(KmeansIterate(values, KmeansInit(SortNum(values), k), iters))

\* the position filter: cx in [0.20 W, 0.80 W], cy in [0.14 H, 0.85 H]
InRegion(b) ==
  /\ 100 * CenterX(b) >= 20 * ToUnits(ImgW)
  /\ 100 * CenterX(b) <= 80 * ToUnits(ImgW)
  /\ 100 * CenterY(b) >= 14 * ToUnits(ImgH)
  /\ 100 * CenterY(b) <= 85 * ToUnits(ImgH)

\* if (filtered.length) boxes = filtered;
FilterByPosition(cands) ==
  LET filtered == SelectSeq(cands, InRegion)
  IN IF Len(filtered) > 0 THEN filtered ELSE cands

\* boxes.sort((a, b) => (b.w * b.h) - (a.w * a.h))
BoxesOf(keyed) == [i \in 1 .. Len(keyed) |-> keyed[i].box]

SortByAreaDesc(bs) ==
  BoxesOf(SortByKey([i \in 1 .. Len(bs) |->
                       [key |-> 0 - Area(bs[i]), box |-> bs[i]]]))

\* if (boxes.length > EXPECTED): the area band around the median area and
\* the cut to 2 * EXPECTED boxes
\* the boxes with area within [0.45, 2.25] times the median area medA2 / 2
InAreaBand(bs, medA2) ==
  SelectSeq(bs, LAMBDA b : /\ 200 * Area(b) >= 45 * medA2
                           /\ 200 * Area(b) <= 225 * medA2)

KeepIfThree(filteredByArea, bs) ==
  IF Len(filteredByArea) >= 3 THEN filteredByArea ELSE bs

CutTo(sorted, n) == IF Len(sorted) > n THEN SubSeq(sorted, 1, n) ELSE sorted

FilterByArea(bs) ==
  IF Len(bs) > EXPECTED
  THEN CutTo(SortByAreaDesc(
               KeepIfThree(
                 InAreaBand(bs, MedianNumber([i \in 1 .. Len(bs) |->
                                                2 * Area(bs[i])])),
                 bs)),
             EXPECTED * 2)
  ELSE bs

\* wMed and hMed, in units
WMedOf(bs) ==
  IF Len(bs) > 0
  THEN MedianNumber([i \in 1 .. Len(bs) |-> ToUnits(bs[i].w)])
  ELSE (11 * ToUnits(ImgW)) \div 100

HMedOf(bs) ==
  IF Len(bs) > 0
  THEN MedianNumber([i \in 1 .. Len(bs) |-> ToUnits(bs[i].h)])
  ELSE (32 * ToUnits(ImgH)) \div 100

\* dx: the median gap of the sorted x centers, or 1.60 wMed
GapsOf(sx, wm) ==
  SelectSeq([i \in 1 .. Len(sx) - 1 |-> sx[i + 1] - sx[i]],
            LAMBDA d : 10 * d >= 6 * wm)

MedianOr(diffs, other) ==
  IF Len(diffs) > 0 THEN MedianNumber(diffs) ELSE other

SpacingX(xs, wm) ==
  IF Len(xs) >= 2
  THEN MedianOr(GapsOf(SortNum(xs), wm), (8 * wm) \div 5)
  ELSE (8 * wm) \div 5

\* dy: the separation of the two row centers, or max(1.25 hMed, 0.25 H)
SeparationOr(centers, hm, other) ==
  IF 10 * Abs(centers[2] - centers[1]) >= 8 * hm
  THEN Abs(centers[2] - centers[1])
  ELSE other

SpacingY(ys, hm) ==
  IF Len(ys) >= 2
  THEN SeparationOr(Kmeans1D(ys, 2, 8), hm,
                    Max((5 * hm) \div 4, ToUnits(ImgH) \div 4))
  ELSE Max((5 * hm) \div 4, ToUnits(ImgH) \div 4)

\* the centers as computed, without the clamp into the image
CentersUnclamped(cs, m, size) == SortNum(cs)

\* xCenters.map((v) => clamp(v, wMed * 0.6, W - wMed * 0.6)).sort(...)
ClampCenters(cs, m, size) ==
  SortNum([i \in 1 .. Len(cs) |->
             Clamp(cs[i], (6 * m) \div 10, size - (6 * m) \div 10)])

\* xs.length === 2: a missing middle column, or two adjacent columns
TwoColumns(x1, x2, dx) ==
  IF 10 * (x2 - x1) > 16 * dx
  THEN <<x1, x1 + (x2 - x1) \div 2, x1 + 2 * ((x2 - x1) \div 2)>>
  ELSE IF 2 * x1 < ToUnits(ImgW)
       THEN <<x1, x2, x2 + (x2 - x1)>>
       ELSE <<x1 - (x2 - x1), x1, x2>>

\* xs.length === 1: the column of the only candidate
OneColumn(x, dx) ==
  IF 100 * x < 45 * ToUnits(ImgW) THEN <<x, x + dx, x + 2 * dx>>
  ELSE IF 100 * x > 55 * ToUnits(ImgW) THEN <<x - 2 * dx, x - dx, x>>
  ELSE <<x - dx, x, x + dx>>

SortedPair(sx, dx) == TwoColumns(sx[1], sx[2], dx)

\* the three column centers
XCenters(xs, wm, dx) ==
  ClampCenters(
    IF Len(xs) >= 3 THEN Kmeans1D(xs, 3, 10)
    ELSE IF Len(xs) = 2 THEN SortedPair(SortNum(xs), dx)
    ELSE IF Len(xs) = 1 THEN OneColumn(xs[1], dx)
    ELSE <<(38 * ToUnits(ImgW)) \div 100, (50 * ToUnits(ImgW)) \div 100,
           (62 * ToUnits(ImgW)) \div 100>>,
    wm, ToUnits(ImgW))

\* ys.length >= 2: two rows, or one row detected and the other inferred
TwoRows(centers, hm, dy) ==
  IF 10 * Abs(centers[2] - centers[1]) < 8 * hm
  THEN IF 2 * centers[1] < ToUnits(ImgH)
       THEN <<centers[1], centers[1] + dy>>
       ELSE <<centers[1] - dy, centers[1]>>
  ELSE centers

\* ys.length === 1: the row of the only candidate
OneRow(y, dy) ==
  IF 2 * y < ToUnits(ImgH) THEN <<y, y + dy>> ELSE <<y - dy, y>>

\* the two row centers
YCenters(ys, hm, dy) ==
  ClampCenters(
    IF Len(ys) >= 2 THEN TwoRows(Kmeans1D(ys, 2, 10), hm, dy)
    ELSE IF Len(ys) = 1 THEN OneRow(ys[1], dy)
    ELSE <<(33 * ToUnits(ImgH)) \div 100, (65 * ToUnits(ImgH)) \div 100>>,
    hm, ToUnits(ImgH))

\* the cells column by column
PredsColumnMajor(xc, yc) ==
  [k \in 1 .. EXPECTED |->
     [r |-> (k - 1) % GRID_ROWS, c |-> (k - 1) \div GRID_ROWS,
      cx |-> xc[((k - 1) \div GRID_ROWS) + 1],
      cy |-> yc[((k - 1) % GRID_ROWS) + 1]]]

\* preds: top row left to right, then bottom row left to right
Preds(xc, yc) ==
  [k \in 1 .. EXPECTED |->
     [r |-> (k - 1) \div GRID_COLS, c |-> (k - 1) % GRID_COLS,
      cx |-> xc[((k - 1) % GRID_COLS) + 1],
      cy |-> yc[((k - 1) \div GRID_COLS) + 1]]]

\* Math.hypot(bcX - p.cx, bcY - p.cy), squared
SqDistTo(b, p) ==
  (CenterX(b) - p.cx) * (CenterX(b) - p.cx)
    + (CenterY(b) - p.cy) * (CenterY(b) - p.cy)

\* Math.max(wMed, hMed) * 1.25
MatchCap(wm, hm) == (5 * Max(wm, hm)) \div 4

\* every pair is close enough
WithinAnyDistance(b, p, wm, hm) == TRUE

\* if (dist <= Math.max(wMed, hMed) * 1.25)
WithinMatchCap(b, p, wm, hm) ==
  SqDistTo(b, p) <= MatchCap(wm, hm) * MatchCap(wm, hm)

\* pairs, in the order pushed (bi outer, pi inner), then sorted by dist
SortedPairs(bs, ps, wm, hm) ==
  LET all == [k \in 1 .. Len(bs) * Len(ps) |->
                LET bi == ((k - 1) \div Len(ps)) + 1
                    pi == ((k - 1) % Len(ps)) + 1
                IN [key |-> SqDistTo(bs[bi], ps[pi]), bi |-> bi, pi |-> pi,
                    near |-> WithinMatchCap(bs[bi], ps[pi], wm, hm)]]
  IN SortByKey(SelectSeq(all, LAMBDA pr : pr.near))

\* skips a pair only when its cell is taken
TakenCellOnly(cells, used, pr) == cells[pr.pi] # 0

\* if (assign[pr.pi]) continue; if (used.has(pr.bi)) continue;
Taken(cells, used, pr) == cells[pr.pi] # 0 \/ pr.bi \in used

\* the greedy pass over the sorted pairs: per cell, the index of its box
RECURSIVE GreedyAssign(_, _, _, _)
GreedyAssign(pairs, i, cells, used) ==
  IF i > Len(pairs) THEN cells
  ELSE IF Taken(cells, used, pairs[i])
       THEN GreedyAssign(pairs, i + 1, cells, used)
       ELSE GreedyAssign(pairs, i + 1,
                         [cells EXCEPT ![pairs[i].pi] = pairs[i].bi],
                         used \cup {pairs[i].bi})

\* detectBottleNear: the search window around a predicted center
NearWindow(p, wm, hm) ==
  LET x0 == ClampInt(Round(p.cx - ((19 * wm) \div 10) \div 2), 0, ImgW - 1)
      y0 == ClampInt(Round(p.cy - ((19 * hm) \div 10) \div 2), 0, ImgH - 1)
  IN [x |-> x0, y |-> y0,
      w |-> ClampInt(Round((19 * wm) \div 10), 1, ImgW - x0),
      h |-> ClampInt(Round((19 * hm) \div 10), 1, ImgH - y0)]

\* inferBottleFromMouthOutline: a median-sized box under a mouth outline
\* whose center is (absCx, absCy), in units
MouthBox(absCx, absCy, wm, hm) ==
  LET bx == ClampInt(Round(absCx - wm \div 2), 0, ImgW - 1)
      by == ClampInt(Round(absCy - hm \div 10), 0, ImgH - 1)
  IN [x |-> bx, y |-> by,
      w |-> ClampInt(Round(wm), 1, ImgW - bx),
      h |-> ClampInt(Round(hm), 1, ImgH - by)]

\* detectBottleNear: nothing, the box of a contour of the window (here the
\* window's lower right quarter), or the box under a mouth outline (here
\* at the middle of the window's top edge)
DetectBottleNear(p, wm, hm) ==
  LET win == NearWindow(p, wm, hm)
      cw == Max(1, win.w \div 2)
      ch == Max(1, win.h \div 2)
  IN {NoBox,
      [x |-> win.x + win.w - cw, y |-> win.y + win.h - ch,
       w |-> cw, h |-> ch],
      MouthBox(ToUnits(win.x) + ToUnits(win.w) \div 2, ToUnits(win.y),
               wm, hm)}

\* the synthetic box of a cell, of median size around the predicted center
SyntheticBox(p, wm, hm) ==
  [x |-> ClampInt(Round(p.cx - wm \div 2), 0, ImgW - 1),
   y |-> ClampInt(Round(p.cy - hm \div 2), 0, ImgH - 1),
   w |-> ClampInt(Round(wm), 1, ImgW),
   h |-> ClampInt(Round(hm), 1, ImgH)]

\* the final map: integer coordinates clamped to the image size
ClampBox(b) ==
  [x |-> ClampInt(b.x, 0, ImgW - 1), y |-> ClampInt(b.y, 0, ImgH - 1),
   w |-> ClampInt(b.w, 1, ImgW), h |-> ClampInt(b.h, 1, ImgH)]

\* detectBottlesRobust: the coarse region the candidates are detected in
CoarseRoi ==
  LET rx == ClampInt(Round((14 * ToUnits(ImgW)) \div 100), 0, ImgW - 1)
      ry == ClampInt(Round((12 * ToUnits(ImgH)) \div 100), 0, ImgH - 1)
  IN [x |-> rx, y |-> ry,
      w |-> ClampInt(Round((72 * ToUnits(ImgW)) \div 100), 1, ImgW - rx),
      h |-> ClampInt(Round((73 * ToUnits(ImgH)) \div 100), 1, ImgH - ry)]

MIN_AREA == 8000

\* detectBottles on the coarse region: a bounding box of the region with
\* area >= minArea and aspect h / w within [2.0, 6.5]
IsCandidate(b) ==
  /\ b.x >= CoarseRoi.x /\ b.x + b.w <= CoarseRoi.x + CoarseRoi.w
  /\ b.y >= CoarseRoi.y /\ b.y + b.h <= CoarseRoi.y + CoarseRoi.h
  /\ Area(b) >= Max(MIN_AREA, (8 * CoarseRoi.w * CoarseRoi.h) \div 1000)
  /\ b.h > 2 * b.w /\ 2 * b.h <= 13 * b.w

\* iou(a, b) < 0.30, what nmsBoxes leaves
LowOverlap(a, b) ==
  LET iw == Min(a.x + a.w, b.x + b.w) - Max(a.x, b.x)
      ih == Min(a.y + a.h, b.y + b.h) - Max(a.y, b.y)
      inter == IF iw <= 0 \/ ih <= 0 THEN 0 ELSE iw * ih
  IN 10 * inter < 3 * (Area(a) + Area(b) - inter)

\* Candidate boxes of the inputs: the six bottles of a board, a bottle
\* between two cells, a curtain at either side (center outside the region
\* of interest) and a large outline.
BottleAt(r, c) == [x |-> 168 + 100 * c, y |-> 150 + 290 * r, w |-> 64, h |-> 200]
LargeOutline == [x |-> 100, y |-> 100, w |-> 280, h |-> 570]
CandidatePool ==
  {BottleAt(r, c) : r \in 0 .. GRID_ROWS - 1, c \in 0 .. GRID_COLS - 1}
    \cup {[x |-> 210, y |-> 160, w |-> 64, h |-> 200],
          [x |-> 84, y |-> 100, w |-> 50, h |-> 300],
          [x |-> 466, y |-> 100, w |-> 50, h |-> 300],
          LargeOutline}

\* nmsBoxes returns the boxes by descending area, without high overlaps
IsCandidateList(s) ==
  /\ \A i \in 1 .. Len(s) : IsCandidate(s[i])
  /\ \A i, j \in 1 .. Len(s) :
       i < j => Area(s[i]) >= Area(s[j]) /\ LowOverlap(s[i], s[j])

ShortLists ==
  {s \in UNION {[1 .. n -> CandidatePool] : n \in 0 .. MaxCand} :
     IsCandidateList(s)}

\* more candidates than cells: outlines side by side in three rows
Tile(i) == [x |-> 90 + 64 * (i % 6), y |-> 96 + 190 * (i \div 6), w |-> 64, h |-> 190]
Tiles(n) == [i \in 1 .. n |-> Tile(i - 1)]
CrowdedLists ==
  {s \in {Tiles(EXPECTED + 1), Tiles(2 * EXPECTED + 1),
          <<LargeOutline>> \o Tiles(EXPECTED)} : IsCandidateList(s)}

InitGrid ==
  /\ candidates \in ShortLists \cup CrowdedLists
  /\ boxes = <<>> /\ wMed = 0 /\ hMed = 0 /\ preds = <<>>
  /\ matchOf = <<>> /\ assign = <<>> /\ origin = <<>> /\ probed = {}
  /\ gpi = 0 /\ gpc = "start" /\ gridOut = <<>>
  /\ SolveIdle /\ PourIdle /\ DriverIdle /\ ReconIdle
  /\ PageIdle /\ WorkerIdle

\* enforceFixedBottleGrid up to the end of the greedy matching
Match ==
  /\ gpc = "start"
  /\ \E bs \in {FilterByArea(FilterByPosition(candidates))} :
     \E wm \in {WMedOf(bs)} :
     \E hm \in {HMedOf(bs)} :
     \E xs \in {[i \in 1 .. Len(bs) |-> CenterX(bs[i])]} :
     \E ys \in {[i \in 1 .. Len(bs) |-> CenterY(bs[i])]} :
     \E ps \in {Preds(XCenters(xs, wm, SpacingX(xs, wm)),
                      YCenters(ys, hm, SpacingY(ys, hm)))} :
     \E cells \in {GreedyAssign(SortedPairs(bs, ps, wm, hm), 1,
                                 [k \in 1 .. EXPECTED |-> 0], {})} :
       /\ boxes' = bs /\ wMed' = wm /\ hMed' = hm /\ preds' = ps
       /\ matchOf' = cells
       /\ assign' = [k \in 1 .. EXPECTED |->
                       IF cells[k] # 0 THEN bs[cells[k]] ELSE NoBox]
       /\ origin' = [k \in 1 .. EXPECTED |->
                       IF cells[k] # 0 THEN "candidate" ELSE "none"]
  /\ gpi' = 1 /\ gpc' = "redetect"
  /\ UNCHANGED <<candidates, probed, gridOut, notGrid>>

\* the local search runs for every cell
ProbesEveryCell(a, k) == TRUE

\* if (assign[pi]) continue;
NeedsProbe(a, k) == a[k] = NoBox

\* the re-detection loop, a cell that has a box
RedetectSkip ==
  /\ gpc = "redetect" /\ gpi <= EXPECTED
  /\ ~NeedsProbe(assign, gpi)
  /\ gpi' = gpi + 1
  /\ UNCHANGED <<candidates, boxes, wMed, hMed, preds, matchOf, assign,
                 origin, probed, gpc, gridOut, notGrid>>

\* the re-detection loop, a cell without box: detectBottleNear is called
RedetectCall ==
  /\ gpc = "redetect" /\ gpi <= EXPECTED
  /\ NeedsProbe(assign, gpi)
  /\ \E found \in DetectBottleNear(preds[gpi], wMed, hMed) :
       IF found # NoBox
       THEN /\ assign' = [assign EXCEPT ![gpi] = found]
            /\ origin' = [origin EXCEPT ![gpi] = "redetect"]
       ELSE UNCHANGED <<assign, origin>>
  /\ probed' = probed \cup {gpi}
  /\ gpi' = gpi + 1
  /\ UNCHANGED <<candidates, boxes, wMed, hMed, preds, matchOf, gpc,
                 gridOut, notGrid>>

\* the fallback loop: a synthetic box for every cell still without box
Synthesize ==
  /\ gpc = "redetect" /\ gpi > EXPECTED
  /\ assign' = [k \in 1 .. EXPECTED |->
                  IF assign[k] = NoBox
                  THEN SyntheticBox(preds[k], wMed, hMed)
                  ELSE assign[k]]
  /\ origin' = [k \in 1 .. EXPECTED |->
                  IF assign[k] = NoBox THEN "synthetic" ELSE origin[k]]
  /\ gpc' = "return"
  /\ UNCHANGED <<candidates, boxes, wMed, hMed, preds, matchOf, probed, gpi,
                 gridOut, notGrid>>

\* return assign.map(...)
ReturnGrid ==
  /\ gpc = "return"
  /\ gridOut' = [k \in 1 .. Len(assign) |-> ClampBox(assign[k])]
  /\ gpc' = "done"
  /\ UNCHANGED <<candidates, boxes, wMed, hMed, preds, matchOf, assign,
                 origin, probed, gpi, notGrid>>

NextGrid ==
  Match \/ RedetectSkip \/ RedetectCall \/ Synthesize \/ ReturnGrid

SpecGrid == InitGrid /\ [][NextGrid]_vars
(***************************************************************************)
(* Properties of the solver and of the solve driver.                       *)
(***************************************************************************)
\* every move of the list is a legal pour of the board it is applied to
RECURSIVE LegalSequence(_, _, _, _)
LegalSequence(stacks, moves, c, rocks) ==
  \/ moves = <<>>
  \/ /\ \E i \in 1 .. Len(LegalMoves(stacks, c, rocks)) :
          LegalMoves(stacks, c, rocks)[i] = Head(moves)
     /\ LegalSequence(ApplyMove(stacks, Head(moves)), Tail(moves), c, rocks)

CountColor(stacks, col) ==
  Cardinality({<<i, k>> \in (1 .. Len(stacks)) \X (1 .. MaxTokens + MaxCap) :
                 k <= Len(stacks[i]) /\ stacks[i][k] = col})

\* C1: whenever solve reports solved, its move list is a sequence of legal
\* pours from the initial board to a board without mixed bottle, and no
\* shorter sequence of legal pours reaches such a board.
C1_ShortestSolution ==
  info.solved =>
    /\ LegalSequence(board, info.moves, cap, rockSet)
    /\ NoMixedBottle(Replay(board, info.moves))
    /\ Len(info.moves) = nearest.dist

C1_Witness == info.solved /\ Len(info.moves) >= 2

\* C2: no move of a result of solve, for any number of extra bottles, pours
\* from a rock bottle.
C2_NoRockSource ==
  /\ \A i \in 1 .. Len(lastInfo.moves) :
       lastInfo.moves[i].src \notin parseResult.rock_bottles
  /\ \A i \in 1 .. Len(shown.info.moves) :
       shown.info.moves[i].src \notin parseResult.rock_bottles

C2_Witness ==
  /\ shown.info.solved
  /\ \E i \in 1 .. Len(shown.info.moves) :
       shown.info.moves[i].dst \in parseResult.rock_bottles

\* C3: a legal pour keeps every stack within capacity and without empty slot
\* below a filled one, keeps the number of tokens of every color, and changes
\* only the source and the destination, by exactly amt tokens.
GapFree(contents) ==
  \A i, j \in 1 .. Len(contents) :
    (i < j /\ contents[i] # Null) => contents[j] # Null

C3_PourPreserves ==
  /\ \A i \in 1 .. Len(cur) :
       /\ Len(cur[i]) <= cap
       /\ \A k \in 1 .. Len(cur[i]) : cur[i][k] \in Colors
       /\ GapFree(StacksToContentsTopBottom(cur[i], cap))
  /\ lastMove # NoMove =>
       /\ lastMove.amt >= 1
       /\ Len(cur) = Len(prevBoard)
       /\ \A col \in Colors : CountColor(cur, col) = CountColor(prevBoard, col)
       /\ \A i \in 1 .. Len(cur) :
            i \notin {lastMove.src + 1, lastMove.dst + 1} =>
              cur[i] = prevBoard[i]
       /\ Len(cur[lastMove.src + 1])
            = Len(prevBoard[lastMove.src + 1]) - lastMove.amt
       /\ Len(cur[lastMove.dst + 1])
            = Len(prevBoard[lastMove.dst + 1]) + lastMove.amt

C3_Witness == lastMove # NoMove /\ lastMove.amt >= 2

\* C4: in 'mono' mode a board is a goal exactly when no bottle holds two
\* colors: solve reports solved with zero moves exactly for such a board, and
\* a reported solution ends at such a board and passes through none before.
C4_MonoGoal ==
  maxStates > 0 =>
    /\ NoMixedBottle(board) <=> (info.solved /\ info.moves = <<>>)
    /\ info.solved =>
         /\ NoMixedBottle(Replay(board, info.moves))
         /\ \A k \in 0 .. Len(info.moves) - 1 :
              ~NoMixedBottle(Replay(board, SubSeq(info.moves, 1, k)))

\* solved at once with a partially filled bottle and a color split in two
C4_Witness ==
  /\ info.solved /\ info.moves = <<>>
  /\ \E i, j \in 1 .. Len(board) :
       /\ i # j
       /\ Len(board[i]) > 0 /\ Len(board[i]) < cap
       /\ Len(board[j]) > 0 /\ board[j][1] = board[i][1]

\* C5: the fixture [[A,B],[B,A],[]] with capacity 2 (A = 0, B = 1).
Fixture == <<<<0, 1>>, <<1, 0>>, <<>>>>
OnFixture ==
  /\ board = Fixture /\ cap = 2 /\ rockSet = {}
  /\ maxStates = MaxStatesOfPage

\* C5 as stated: three moves, ending at [[A,A],[],[B,B]].
C5_AsStated ==
  OnFixture =>
    /\ info.solved
    /\ info.moves = <<[src |-> 0, dst |-> 2, color |-> 1, amt |-> 1],
                      [src |-> 1, dst |-> 0, color |-> 0, amt |-> 1],
                      [src |-> 1, dst |-> 2, color |-> 1, amt |-> 1]>>
    /\ Replay(board, info.moves) = <<<<0, 0>>, <<>>, <<1, 1>>>>

\* C5 amended: solve stops after the first two of these moves, at
\* [[A,A],[B],[B]], which has no mixed bottle; two is the minimum.
C5_FixtureTwoMoves ==
  OnFixture =>
    /\ info.solved
    /\ info.moves = <<[src |-> 0, dst |-> 2, color |-> 1, amt |-> 1],
                      [src |-> 1, dst |-> 0, color |-> 0, amt |-> 1]>>
    /\ Replay(board, info.moves) = <<<<0, 0>>, <<1>>, <<1>>>>
    /\ nearest.dist = 2

C5_Witness == OnFixture /\ info.solved

\* C6: with growing maxStates, a board from which no goal is reachable is
\* never reported solved; a solved board stays solved with the same move
\* count; and once the limit covers the boards up to the shortest-path depth
\* the board is reported solved with the shortest move count.
C6_MonotonicInLimit ==
  LET near == nearest
  IN /\ near.dist = -1 =>
          \A k \in 1 .. Len(results) : ~results[k].info.solved
     /\ \A j, k \in 1 .. Len(results) :
          (j < k /\ results[j].info.solved) =>
            /\ results[k].info.solved
            /\ Len(results[k].info.moves) = Len(results[j].info.moves)
     /\ \A k \in 1 .. Len(results) :
          (near.dist >= 0 /\ results[k].limit >= near.ball) =>
            /\ results[k].info.solved
            /\ Len(results[k].info.moves) = near.dist

C6_Witness ==
  \E j, k \in 1 .. Len(results) :
    /\ j < k
    /\ results[j].info.reason = REASON_LIMIT
    /\ results[k].info.solved
    /\ results[k].limit < MaxStatesOfPage

AllowedOf(pr) == IF pr.add_bottles = Null THEN 0 ELSE pr.add_bottles

C8_AscendingExtras ==
  LET base == BaseStacks(parseResult)
      allowed == AllowedOf(parseResult)
  IN /\ \A k \in 1 .. Len(calls) :
          /\ calls[k].e = k - 1
          /\ calls[k].e <= allowed
          /\ Len(calls[k].init) = Len(base) + (k - 1)
          /\ SubSeq(calls[k].init, 1, Len(base)) = base
          /\ \A x \in Len(base) + 1 .. Len(calls[k].init) :
               calls[k].init[x] = <<>>
          /\ k < Len(calls) => ~calls[k].solved
     /\ (pc = "idle" /\ shown # NoShown) =>
          /\ calls # <<>>
          /\ shown.info # NoInfo
          /\ shown.info.extraUsed = calls[Len(calls)].e
          /\ shown.info.solved = calls[Len(calls)].solved
          /\ shown.initial = calls[Len(calls)].init
          /\ ~shown.info.solved => shown.info.extraUsed = allowed

C8_Witness ==
  /\ pc = "idle" /\ shown.info.solved
  /\ Len(calls) = 2 /\ shown.info.extraUsed = 1

(***************************************************************************)
(* Properties of the reconciler.                                           *)
(***************************************************************************)
Divisible == rCap > 0 /\ Len(samples) > 0 /\ Len(samples) % rCap = 0

\* C9 as stated: with a divisible total, the final cluster count never
\* exceeds total / capacity.
C9_AsStated ==
  (rpc = "done" /\ Divisible) =>
    Cardinality(DOMAIN clusterInfo) <= Len(samples) \div rCap

\* C9 amended: with a divisible total, the final cluster count exceeds
\* total / capacity only when no two of the remaining clusters have a
\* combined count of at most capacity and centers within the merge ceiling.
C9_CountOrNoPair ==
  (rpc = "done" /\ Divisible) =>
    \/ Cardinality(DOMAIN clusterInfo) <= Len(samples) \div rCap
    \/ \A a, b \in DOMAIN clusterInfo :
         a < b =>
           \/ clusterInfo[a].count + clusterInfo[b].count > rCap
           \/ ~WithinMaxDist(clusterInfo[a], clusterInfo[b],
                             DEFAULT_DBSCAN_EPS)

C9_Witness ==
  /\ rpc = "done" /\ Divisible /\ merges # <<>>
  /\ Cardinality(DOMAIN clusterInfo) = Len(samples) \div rCap

\* C10: no merge joins two clusters whose combined count exceeds capacity:
\* after every merge the kept cluster holds at most capacity members.
C10_MergeWithinCapacity ==
  /\ lastMerged.keepCount + lastMerged.dropCount <= rCap
  /\ \A k \in 1 .. Len(merges) :
       merges[k].keep \in DOMAIN clusterInfo =>
         clusterInfo[merges[k].keep].count <= rCap

C10_Witness ==
  /\ merges # <<>>
  /\ lastMerged.keepCount + lastMerged.dropCount = rCap
\* the partition of the sample positions a labelling induces
PartitionOf(labels) ==
  {{j \in 1 .. Len(labels) : labels[j] = labels[i]} : i \in 1 .. Len(labels)}

\* the samples in the order ord (a permutation of their positions)
Reordered(labs, ord) == [i \in 1 .. Len(labs) |-> labs[ord[i]]]

\* C11: for the same samples, capacity and epsilon, every ordering of the
\* samples is reconciled into the same partition of the samples (the ids
\* may differ).
C11_AsStated ==
  rpc = "done" =>
    \A ord \in Permutations(1 .. Len(samples)) :
      LET other == Reconcile(Reordered(samples, ord), rCap,
                             DEFAULT_DBSCAN_EPS).labels
      IN {{ord[j] : j \in blk} : blk \in PartitionOf(other)}
           = PartitionOf(rLabels)

\* C12: a request whose capacity is zero or negative is answered with an
\* error, not with a clustering result.
C12_AsStated ==
  (rpc = "posted" /\ msgCapacity <= 0) => reply = REPLY_ERROR

\* C13: when the number of samples is not a multiple of the capacity, the
\* merge step returns the labels and the clusters of the provisional
\* clustering and an empty merge list.
C13_NoMergeUnlessDivisible ==
  (rpc \in {"loop", "done", "posted"} /\ Len(samples) % rCap # 0) =>
    /\ rLabels = ClusterColorsDbscan(samples, DEFAULT_DBSCAN_EPS).labels
    /\ clusterInfo
         = ClusterColorsDbscan(samples, DEFAULT_DBSCAN_EPS).clusterInfo
    /\ merges = <<>>
    /\ expectedColors = Null

\* two provisional clusters that a merge step would have joined are kept
C13_Witness ==
  /\ rpc = "done" /\ Len(samples) % rCap # 0
  /\ \E a, b \in DOMAIN clusterInfo :
       /\ a < b
       /\ clusterInfo[a].count + clusterInfo[b].count <= rCap
       /\ WithinMaxDist(clusterInfo[a], clusterInfo[b], DEFAULT_DBSCAN_EPS)

(***************************************************************************)
(* Properties of the boards handed to the solver.                          *)
(***************************************************************************)
\* a stack holds at most c slots, all of them filled: no empty slot below a
\* filled one
WellFormedStack(stack, c) ==
  /\ Len(stack) <= c
  /\ \A k \in 1 .. Len(stack) : stack[k] # Null
  /\ GapFree(StacksToContentsTopBottom(stack, c))

C14_SixBoxesRowMajor ==
  gpc = "done" =>
    /\ Len(gridOut) = GRID_ROWS * GRID_COLS
    /\ Len(preds) = GRID_ROWS * GRID_COLS
    /\ \A k \in 1 .. Len(preds) :
         /\ preds[k].r = (k - 1) \div GRID_COLS
         /\ preds[k].c = (k - 1) % GRID_COLS
         /\ k = (GRID_COLS * preds[k].r) + preds[k].c + 1
         /\ origin[k] # "none"
         /\ gridOut[k] = ClampBox(assign[k])
    /\ \A j, k \in 1 .. Len(preds) :
         /\ preds[j].c = preds[k].c => preds[j].cx = preds[k].cx
         /\ preds[j].r = preds[k].r => preds[j].cy = preds[k].cy
         /\ preds[j].c < preds[k].c => preds[j].cx <= preds[k].cx
         /\ preds[j].r < preds[k].r => preds[j].cy <= preds[k].cy

\* a list of more than twelve candidates has been normalized
C14_Witness ==
  /\ gpc = "done" /\ Len(candidates) > 2 * EXPECTED
  /\ Len(gridOut) = EXPECTED

\* C15: every box returned by the normalizer lies inside the image.
C15_InsideImage ==
  gpc = "done" =>
    \A k \in 1 .. Len(gridOut) :
      /\ gridOut[k].x >= 0 /\ gridOut[k].y >= 0
      /\ gridOut[k].w >= 1 /\ gridOut[k].h >= 1
      /\ gridOut[k].x + gridOut[k].w <= ImgW
      /\ gridOut[k].y + gridOut[k].h <= ImgH

\* a synthetic box of a cell whose predicted center was clamped is returned
C15_Witness ==
  /\ gpc = "done"
  /\ \E k \in 1 .. Len(gridOut) :
       /\ origin[k] = "synthetic"
       /\ \/ preds[k].cx \in {(6 * wMed) \div 10,
                              ToUnits(ImgW) - (6 * wMed) \div 10}
          \/ preds[k].cy \in {(6 * hMed) \div 10,
                              ToUnits(ImgH) - (6 * hMed) \div 10}

\* C19: after the greedy matching no candidate has two cells and no cell
\* has two candidates, every matched candidate is within
\* 1.25 * max(wMed, hMed) of the predicted center of its cell, and the
\* pairs were taken in ascending order of distance: a pair within the cap
\* that was not taken has one side taken by a pair that is not farther.
C19_GreedyMatching ==
  gpc \in {"redetect", "return", "done"} =>
    /\ \A j, k \in 1 .. EXPECTED :
         (matchOf[j] # 0 /\ matchOf[j] = matchOf[k]) => j = k
    /\ \A k \in 1 .. EXPECTED :
         matchOf[k] # 0 =>
           /\ matchOf[k] \in 1 .. Len(boxes)
           /\ SqDistTo(boxes[matchOf[k]], preds[k])
                <= MatchCap(wMed, hMed) * MatchCap(wMed, hMed)
    /\ \A bi \in 1 .. Len(boxes), k \in 1 .. EXPECTED :
         (/\ matchOf[k] # bi
          /\ SqDistTo(boxes[bi], preds[k])
               <= MatchCap(wMed, hMed) * MatchCap(wMed, hMed)) =>
           \/ /\ matchOf[k] # 0
              /\ SqDistTo(boxes[matchOf[k]], preds[k])
                   <= SqDistTo(boxes[bi], preds[k])
           \/ \E j \in 1 .. EXPECTED :
                /\ matchOf[j] = bi
                /\ SqDistTo(boxes[bi], preds[j])
                     <= SqDistTo(boxes[bi], preds[k])

\* a candidate within the cap of two cells was given to the nearer one,
\* and the other cell was left without candidate
C19_Witness ==
  /\ gpc = "redetect"
  /\ \E bi \in 1 .. Len(boxes), k \in 1 .. EXPECTED :
       /\ matchOf[k] = 0
       /\ SqDistTo(boxes[bi], preds[k])
            <= MatchCap(wMed, hMed) * MatchCap(wMed, hMed)
       /\ \E j \in 1 .. EXPECTED :
            /\ matchOf[j] = bi
            /\ SqDistTo(boxes[bi], preds[j]) < SqDistTo(boxes[bi], preds[k])

\* C20: the local search is called only for a cell that the matching left
\* without candidate, a synthetic box (of median size, centered at the
\* prediction within a pixel) is made only for a cell whose local search
\* returned nothing, and the box of a matched cell is never replaced: the
\* box returned for it is the candidate it was matched with.
C20_FillOnlyMissing ==
  [][gpc # "start" =>
       /\ \A k \in 1 .. EXPECTED :
            /\ assign[k] # NoBox =>
                 assign'[k] = assign[k] /\ origin'[k] = origin[k]
            /\ k \in probed' \ probed =>
                 matchOf[k] = 0 /\ assign[k] = NoBox
            /\ (origin'[k] = "synthetic" /\ origin[k] # "synthetic") =>
                 /\ k \in probed /\ matchOf[k] = 0 /\ assign[k] = NoBox
                 /\ assign'[k].w = Round(wMed) /\ assign'[k].h = Round(hMed)
                 /\ Abs(ToUnits(2 * assign'[k].x + assign'[k].w)
                          - 2 * preds[k].cx) <= 2 * Scale
                 /\ Abs(ToUnits(2 * assign'[k].y + assign'[k].h)
                          - 2 * preds[k].cy) <= 2 * Scale
       /\ gpc' = "done" =>
            \A k \in 1 .. EXPECTED :
              matchOf[k] # 0 => gridOut'[k] = ClampBox(boxes[matchOf[k]])
    ]_vars

\* a grid with a matched cell, a cell filled by the local search and a cell
\* filled by a synthetic box
C20_Witness ==
  /\ gpc = "done"
  /\ \E i, j, k \in 1 .. EXPECTED :
       /\ matchOf[i] # 0 /\ origin[i] = "candidate"
       /\ origin[j] = "redetect" /\ j \in probed
       /\ origin[k] = "synthetic" /\ k \in probed

(***************************************************************************)
(* Properties of the merge loop and of the provisional clustering.         *)
(***************************************************************************)
\* the pairs of clusters a merge may join: lower id first, combined count
\* at most the capacity, centers within max(8, 1.2 * eps)
MayJoin(a, b) ==
  /\ a \in DOMAIN clusterInfo /\ b \in DOMAIN clusterInfo /\ a < b
  /\ clusterInfo[a].count + clusterInfo[b].count <= rCap
  /\ 25 * DistNum(clusterInfo[a], clusterInfo[b])
       <= Max(40, 6 * DEFAULT_DBSCAN_EPS) * Max(40, 6 * DEFAULT_DBSCAN_EPS)
            * DistDen(clusterInfo[a], clusterInfo[b])

\* C17: a step of the merge loop is taken only while there are more
\* clusters than total / capacity; it joins a pair that may be joined and
\* that no other such pair is closer than, keeps the lower id and removes
\* the higher id from the labels and from the palette; the loop ends only
\* at the expected count or when no pair may be joined.
C17_MergesClosestEligible ==
  [][rpc = "loop" =>
       /\ merges' # merges =>
            LET m == merges'[Len(merges')]
            IN /\ merges' = Append(merges, m)
               /\ Cardinality(DOMAIN clusterInfo) > Len(samples) \div rCap
               /\ MayJoin(m.keep, m.drop)
               /\ \A a, b \in DOMAIN clusterInfo :
                    MayJoin(a, b) =>
                      DistNum(clusterInfo[a], clusterInfo[b])
                          * DistDen(clusterInfo[m.keep], clusterInfo[m.drop])
                        >= DistNum(clusterInfo[m.keep], clusterInfo[m.drop])
                             * DistDen(clusterInfo[a], clusterInfo[b])
               /\ DOMAIN clusterInfo' = (DOMAIN clusterInfo) \ {m.drop}
               /\ clusterInfo'[m.keep].count
                    = clusterInfo[m.keep].count + clusterInfo[m.drop].count
               /\ \A k \in DOMAIN clusterInfo' :
                    k # m.keep => clusterInfo'[k] = clusterInfo[k]
               /\ \A j \in 1 .. Len(rLabels) :
                    rLabels'[j] = IF rLabels[j] = m.drop THEN m.keep
                                  ELSE rLabels[j]
       /\ merges' = merges =>
            /\ rLabels' = rLabels /\ clusterInfo' = clusterInfo
            /\ rpc' = "done" =>
                 \/ Cardinality(DOMAIN clusterInfo) <= Len(samples) \div rCap
                 \/ \A a, b \in DOMAIN clusterInfo : ~MayJoin(a, b)
    ]_vars

\* after a merge the loop has ended above the expected count, and the pair
\* that was merged was not the first pair of the scan that may be joined
C17_Witness ==
  /\ rpc = "done" /\ Len(merges) = 1
  /\ Cardinality(DOMAIN clusterInfo) > expectedColors
  /\ LET r == ClusterColorsDbscan(samples, DEFAULT_DBSCAN_EPS).clusterInfo
     IN \E p \in Eligible(r, rCap, DEFAULT_DBSCAN_EPS) :
          p[1] < merges[1].keep

\* the samples that a chain of steps of at most eps links to a sample of set
RECURSIVE Component(_, _, _)
Component(labs, set, eps) ==
  IF \A i \in set : \A j \in 1 .. Len(labs) :
       SqDist(labs[i], labs[j]) <= eps * eps => j \in set
  THEN set
  ELSE Component(labs,
                 set \cup {j \in 1 .. Len(labs) :
                             \E i \in set :
                               SqDist(labs[i], labs[j]) <= eps * eps},
                 eps)

\* C18: the provisional clustering gives two samples the same label exactly
\* when a chain of samples links them with every step at most eps; samples
\* whose distances are all 0 or above eps are grouped by equal value.
C18_ConnectedComponents ==
  rpc = "enter" =>
    /\ \A i, j \in 1 .. Len(samples) :
         (rLabels[i] = rLabels[j])
           <=> (j \in Component(samples, {i}, DEFAULT_DBSCAN_EPS))
    /\ (\A i, j \in 1 .. Len(samples) :
          \/ SqDist(samples[i], samples[j]) = 0
          \/ SqDist(samples[i], samples[j])
               > DEFAULT_DBSCAN_EPS * DEFAULT_DBSCAN_EPS)
         => \A i, j \in 1 .. Len(samples) :
              (rLabels[i] = rLabels[j]) <=> (samples[i] = samples[j])

\* two samples farther apart than eps share a label, through a third one
\* that comes after both
C18_Witness ==
  /\ rpc = "enter"
  /\ \E i, j, k \in 1 .. Len(samples) :
       /\ i < j /\ j < k
       /\ rLabels[i] = rLabels[j]
       /\ SqDist(samples[i], samples[j])
            > DEFAULT_DBSCAN_EPS * DEFAULT_DBSCAN_EPS
       /\ SqDist(samples[i], samples[k])
            <= DEFAULT_DBSCAN_EPS * DEFAULT_DBSCAN_EPS
       /\ SqDist(samples[k], samples[j])
            <= DEFAULT_DBSCAN_EPS * DEFAULT_DBSCAN_EPS

\* C30: from the provisional clustering on, through every merge step and
\* at return, the label of every sample is the id of a cluster, the count
\* of every cluster is the number of samples with its label, the counts
\* add up to the number of samples, and every merge step has removed
\* exactly one cluster (so the loop ends after at most as many steps as
\* there are provisional clusters).
C30_SamplesConserved ==
  rpc \in {"enter", "loop", "done", "posted"} =>
    /\ Len(rLabels) = Len(samples)
    /\ \A j \in 1 .. Len(rLabels) : rLabels[j] \in DOMAIN clusterInfo
    /\ \A k \in DOMAIN clusterInfo :
         /\ clusterInfo[k].id = k
         /\ clusterInfo[k].count
              = Cardinality({j \in 1 .. Len(rLabels) : rLabels[j] = k})
         /\ clusterInfo[k].count >= 1
    /\ Len(samples)
         = SumSeq([j \in 1 .. Len(samples) |->
                     IF /\ j - 1 \in DOMAIN clusterInfo
                     THEN clusterInfo[j - 1].count ELSE 0])
    /\ DOMAIN clusterInfo \subseteq 0 .. Len(samples) - 1
    /\ Cardinality(DOMAIN clusterInfo) + Len(merges)
         = Cardinality(DOMAIN
             ClusterColorsDbscan(samples, DEFAULT_DBSCAN_EPS).clusterInfo)

\* the result returned after two merge steps
C30_Witness ==
  /\ rpc = "done" /\ Len(merges) = 2
  /\ \E k \in DOMAIN clusterInfo : clusterInfo[k].count >= 2

\* C21: a candidate whose center lies outside the region of interest is
\* discarded before the grid is estimated: it is not among the boxes the
\* centers are estimated from, and it is not returned as the box of a cell.
C21_AsStated ==
  gpc \in {"redetect", "return", "done"} =>
    /\ \A i \in 1 .. Len(boxes) : InRegion(boxes[i])
    /\ gpc = "done" =>
         \A k \in 1 .. Len(gridOut), i \in 1 .. Len(candidates) :
           (origin[k] = "candidate" /\ ~InRegion(candidates[i])) =>
             gridOut[k] # ClampBox(candidates[i])

\* the slots of the detected bottles that hold color c
SlotsWith(pr, c) ==
  {<<i, s>> \in (1 .. Len(pr.bottle_contents_ids)) \X (1 .. pr.capacity) :
     pr.bottle_contents_ids[i][s] = c}

\* C29: after any merges and deletions of colors, every filled slot holds
\* an id of the palette (so an id merged away or deleted is in no slot and
\* has no count), num_colors is the size of the palette, and the unit
\* counts, one per palette entry, add up to the number of filled slots.
C29_PaletteMatchesBoard ==
  parseResult # NoParse =>
    /\ \A i \in 1 .. Len(parseResult.bottle_contents_ids) :
         \A s \in 1 .. Len(parseResult.bottle_contents_ids[i]) :
           \/ parseResult.bottle_contents_ids[i][s] = Null
           \/ parseResult.bottle_contents_ids[i][s]
                \in parseResult.colors_by_id
    /\ DOMAIN parseResult.color_unit_counts = parseResult.colors_by_id
    /\ parseResult.num_colors = Cardinality(parseResult.colors_by_id)
    /\ SumSeq([c \in 1 .. NumColors |->
                 IF c - 1 \in parseResult.colors_by_id
                 THEN parseResult.color_unit_counts[c - 1] ELSE 0])
         = Cardinality(UNION {SlotsWith(parseResult, c) : c \in Colors})
    /\ \A c \in parseResult.colors_by_id :
         parseResult.color_unit_counts[c]
           = Cardinality(SlotsWith(parseResult, c))

\* a color was merged into another one and the board was solved: the kept
\* color counts more slots than the capacity of a bottle
C29_Witness ==
  /\ parseResult # NoParse /\ calls # <<>>
  /\ \E c \in parseResult.colors_by_id :
       parseResult.color_unit_counts[c] > parseResult.capacity
  /\ Cardinality(parseResult.colors_by_id) < NumColors

(***************************************************************************)
(* SpecPage: the page script (main.js) between the file input, the         *)
(* Analyze button, the vision worker's messages, the badge OCR and the     *)
(* legend.  Every action is one task of the page's event loop: a handler   *)
(* up to its next await, or the continuation after an await.  The worker   *)
(* appears only through the messages it exchanges with the page.           *)
(***************************************************************************)
MaxImages == 2       \* files picked by the user
MaxRequests == 2     \* analysis requests issued by the page
LegendColors == 2    \* legend items after a vision result

MSG_LOG == "log"
MSG_ERROR == "error"
MSG_RESULT == "result"

InitPage ==
  /\ PageIdle
  /\ SolveIdle /\ PourIdle /\ DriverIdle /\ ReconIdle /\ GridIdle
  /\ WorkerIdle

\* elFile 'change': loadImageFromFile up to the createImageBitmap await;
\* resetState() leaves isAnalyzing and activeAnalyzeRequestId alone
LoadImageFromFile ==
  /\ imagesPicked < MaxImages
  /\ imagesPicked' = imagesPicked + 1
  /\ decoding' = decoding \cup {imagesPicked + 1}
  /\ imageBitmap' = 0
  /\ parsedFrom' = 0
  /\ btnAnalyzeDisabled' = TRUE
  /\ btnSolveDisabled' = TRUE
  /\ overlayOf' = 0
  /\ legendSize' = 0
  /\ statusLine' = "load an image"
  /\ UNCHANGED <<legendSelected, isAnalyzing, analyzeRequestId,
                 activeAnalyzeRequestId, visionWorker, toWorker, running,
                 fromWorker, ocrPending, lastMessage, notPage>>

\* loadImageFromFile after the createImageBitmap await; resizing the
\* overlay canvas clears it
ImageDecoded ==
  \E i \in decoding :
    /\ decoding' = decoding \ {i}
    /\ imageBitmap' = i
    /\ overlayOf' = 0
    /\ btnAnalyzeDisabled' = FALSE
    /\ statusLine' = "loaded"
    /\ UNCHANGED <<imagesPicked, parsedFrom, legendSize, legendSelected,
                   isAnalyzing, analyzeRequestId, activeAnalyzeRequestId,
                   btnSolveDisabled, visionWorker, toWorker, running,
                   fromWorker, ocrPending, lastMessage, notPage>>

\* btnAnalyze 'click' (a disabled button fires no click): analyze() past
\* its two early returns
AnalyzeClick ==
  /\ ~btnAnalyzeDisabled
  /\ imageBitmap # 0
  /\ ~isAnalyzing
  /\ analyzeRequestId < MaxRequests
  /\ btnAnalyzeDisabled' = TRUE
  /\ btnSolveDisabled' = TRUE
  /\ isAnalyzing' = TRUE
  /\ analyzeRequestId' = analyzeRequestId + 1
  /\ activeAnalyzeRequestId' = analyzeRequestId + 1
  /\ legendSelected' = FALSE
  /\ visionWorker' = TRUE
  /\ toWorker' = Append(toWorker, [requestId |-> analyzeRequestId + 1,
                                   image |-> imageBitmap])
  /\ statusLine' = "analyzing"
  /\ UNCHANGED <<imageBitmap, decoding, imagesPicked, parsedFrom, overlayOf,
                 legendSize, running, fromWorker, ocrPending, lastMessage,
                 notPage>>

\* the worker receives an analyze message: busy reply, or accept and log
WorkerReceives ==
  /\ toWorker # <<>>
  /\ toWorker' = Tail(toWorker)
  /\ LET m == Head(toWorker) IN
       IF running # NoRun
         THEN /\ fromWorker' = Append(fromWorker,
                   [type |-> MSG_ERROR, requestId |-> m.requestId,
                    image |-> m.image])
              /\ UNCHANGED running
         ELSE /\ running' = m
              /\ fromWorker' = Append(fromWorker,
                   [type |-> MSG_LOG, requestId |-> m.requestId,
                    image |-> m.image])
  /\ UNCHANGED <<imageBitmap, decoding, imagesPicked, parsedFrom, overlayOf,
                 legendSize, legendSelected, isAnalyzing, analyzeRequestId,
                 activeAnalyzeRequestId, btnAnalyzeDisabled,
                 btnSolveDisabled, statusLine, visionWorker, ocrPending,
                 lastMessage, notPage>>

\* the worker posts the terminal reply of the request it is busy with
WorkerReplies ==
  /\ running # NoRun
  /\ \E t \in {MSG_RESULT, MSG_ERROR} :
       fromWorker' = Append(fromWorker,
         [type |-> t, requestId |-> running.requestId,
          image |-> running.image])
  /\ running' = NoRun
  /\ UNCHANGED <<imageBitmap, decoding, imagesPicked, parsedFrom, overlayOf,
                 legendSize, legendSelected, isAnalyzing, analyzeRequestId,
                 activeAnalyzeRequestId, btnAnalyzeDisabled,
                 btnSolveDisabled, statusLine, visionWorker, toWorker,
                 ocrPending, lastMessage, notPage>>

\* w.onmessage: the check that drops messages of older requests
NeverStale(m) == FALSE
IsStale(m) == m.requestId # Null /\ m.requestId # activeAnalyzeRequestId

\* w.onmessage, type 'result': onVisionResult up to the OCR await, or to
\* its end when no OCR pass is tried
OnVisionResult(m, ocr) ==
  /\ isAnalyzing' = FALSE
  /\ parsedFrom' = m.image
  /\ legendSelected' = FALSE
  /\ legendSize' = LegendColors
  /\ overlayOf' = m.image
  /\ btnAnalyzeDisabled' = FALSE
  /\ IF ocr
       THEN /\ btnSolveDisabled' = TRUE
            /\ statusLine' = "finalizing"
            /\ ocrPending' = ocrPending + 1
       ELSE /\ btnSolveDisabled' = FALSE
            /\ statusLine' = "analysis complete"
            /\ UNCHANGED ocrPending

\* w.onmessage for the next message of the worker
OnMessage ==
  /\ fromWorker # <<>>
  /\ fromWorker' = Tail(fromWorker)
  /\ lastMessage' = Head(fromWorker)
  /\ LET m == Head(fromWorker) IN
       CASE IsStale(m) ->
              UNCHANGED <<parsedFrom, overlayOf, legendSize, legendSelected,
                          isAnalyzing, btnAnalyzeDisabled, btnSolveDisabled,
                          statusLine, ocrPending>>
         [] ~IsStale(m) /\ m.type = MSG_LOG ->
              /\ statusLine' = IF isAnalyzing THEN "log" ELSE statusLine
              /\ UNCHANGED <<parsedFrom, overlayOf, legendSize,
                             legendSelected, isAnalyzing,
                             btnAnalyzeDisabled, btnSolveDisabled,
                             ocrPending>>
         [] ~IsStale(m) /\ m.type = MSG_ERROR ->
              /\ statusLine' = "error"
              /\ isAnalyzing' = FALSE
              /\ btnAnalyzeDisabled' = FALSE
              /\ btnSolveDisabled' = TRUE
              /\ UNCHANGED <<parsedFrom, overlayOf, legendSize,
                             legendSelected, ocrPending>>
         [] ~IsStale(m) /\ m.type = MSG_RESULT ->
              \E ocr \in BOOLEAN : OnVisionResult(m, ocr)
  /\ UNCHANGED <<imageBitmap, decoding, imagesPicked, analyzeRequestId,
                 activeAnalyzeRequestId, visionWorker, toWorker, running,
                 notPage>>

\* w.onerror / w.onmessageerror: hardReset.  The worker is terminated; the
\* messages it had already posted may or may not still be delivered.
HardReset ==
  /\ visionWorker
  /\ visionWorker' = FALSE
  /\ toWorker' = <<>>
  /\ running' = NoRun
  /\ fromWorker' \in {fromWorker, <<>>}
  /\ isAnalyzing' = FALSE
  /\ btnAnalyzeDisabled' = FALSE
  /\ btnSolveDisabled' = TRUE
  /\ statusLine' = "worker error"
  /\ UNCHANGED <<imageBitmap, decoding, imagesPicked, parsedFrom, overlayOf,
                 legendSize, legendSelected, analyzeRequestId,
                 activeAnalyzeRequestId, ocrPending, lastMessage, notPage>>

\* onVisionResult after the OCR await: the finally block
OcrDone ==
  /\ ocrPending > 0
  /\ ocrPending' = ocrPending - 1
  /\ btnSolveDisabled' = FALSE
  /\ statusLine' = "analysis complete"
  /\ UNCHANGED <<imageBitmap, decoding, imagesPicked, parsedFrom, overlayOf,
                 legendSize, legendSelected, isAnalyzing, analyzeRequestId,
                 activeAnalyzeRequestId, btnAnalyzeDisabled, visionWorker,
                 toWorker, running, fromWorker, lastMessage, notPage>>

\* a legend item's 'click': onLegendItemClick, with mergeDetectedColors on
\* the click that completes a pair (other: the item is not the selected one)
LegendItemClick ==
  /\ legendSize >= 1
  /\ parsedFrom # 0
  /\ \E other \in BOOLEAN :
       IF ~legendSelected
         THEN /\ legendSelected' = TRUE
              /\ statusLine' = "selected"
              /\ UNCHANGED <<legendSize, btnSolveDisabled>>
         ELSE IF ~other
           THEN /\ legendSelected' = FALSE
                /\ statusLine' = "selection cleared"
                /\ UNCHANGED <<legendSize, btnSolveDisabled>>
           ELSE /\ legendSize >= 2
                /\ legendSelected' = FALSE
                /\ legendSize' = legendSize - 1
                /\ btnSolveDisabled' = FALSE
                /\ statusLine' = "merged colors"
  /\ UNCHANGED <<imageBitmap, decoding, imagesPicked, parsedFrom, overlayOf,
                 isAnalyzing, analyzeRequestId, activeAnalyzeRequestId,
                 btnAnalyzeDisabled, visionWorker, toWorker, running,
                 fromWorker, ocrPending, lastMessage, notPage>>

\* a legend item's delete button: clearLegendSelection, deleteDetectedColor
LegendDeleteClick ==
  /\ legendSize >= 1
  /\ parsedFrom # 0
  /\ legendSelected' = FALSE
  /\ legendSize' = legendSize - 1
  /\ btnSolveDisabled' = FALSE
  /\ statusLine' = "deleted color"
  /\ UNCHANGED <<imageBitmap, decoding, imagesPicked, parsedFrom, overlayOf,
                 isAnalyzing, analyzeRequestId, activeAnalyzeRequestId,
                 btnAnalyzeDisabled, visionWorker, toWorker, running,
                 fromWorker, ocrPending, lastMessage, notPage>>

NextPage ==
  \/ LoadImageFromFile
  \/ ImageDecoded
  \/ AnalyzeClick
  \/ WorkerReceives
  \/ WorkerReplies
  \/ OnMessage
  \/ HardReset
  \/ OcrDone
  \/ LegendItemClick
  \/ LegendDeleteClick

SpecPage == InitPage /\ [][NextPage]_vars

\* what the page shows and keeps about the analysis
PageState ==
  <<statusLine, isAnalyzing, btnAnalyzeDisabled, btnSolveDisabled,
    parsedFrom, overlayOf, legendSize, legendSelected, ocrPending>>

\* C22: a worker message carrying a numeric requestId other than the id of
\* the most recently issued analysis request changes nothing of the page:
\* status line, isAnalyzing, the two buttons, parse result, overlay and
\* legend stay as they were when w.onmessage has run for it.
C22_LateMessagesIgnored ==
  [][(/\ fromWorker # <<>>
      /\ lastMessage' = Head(fromWorker)
      /\ fromWorker' = Tail(fromWorker)
      /\ visionWorker' = visionWorker
      /\ Head(fromWorker).requestId # Null
      /\ Head(fromWorker).requestId # analyzeRequestId)
     => UNCHANGED PageState]_vars

\* a result of request 1 was delivered after request 2 had been issued, and
\* no parse result has ever been set
C22_Witness ==
  /\ lastMessage.type = MSG_RESULT
  /\ lastMessage.requestId = 1
  /\ analyzeRequestId = 2
  /\ imagesPicked = 1
  /\ parsedFrom = 0
  /\ isAnalyzing

\* C25: parseResult and the overlay never describe an image other than the
\* one currently loaded.
C25_AsStated ==
  /\ parsedFrom \in {0, imageBitmap}
  /\ overlayOf \in {0, imageBitmap}

\* C26: the Solve button is never enabled while isAnalyzing is true.
C26_AsStated == isAnalyzing => btnSolveDisabled

\* C27: whenever the Solve button is enabled, parseResult is not null.
C27_AsStated == ~btnSolveDisabled => parsedFrom # 0

(***************************************************************************)
(* SpecWorker: the vision worker's message handler and loadOpenCv.  Every  *)
(* action is one task of the worker's event loop (a message, a signal of   *)
(* the OpenCV runtime, the 25 s timer) or one promise reaction; the        *)
(* reactions queued by a task run before the next task.                    *)
(***************************************************************************)
MaxMessages == 3     \* messages posted to the worker

Undefined == Null - 1  \* a requestId that is not a number
IsNumber(v) == v >= 0

\* the k-th message posted to the worker, by kind
MessageOf(kind, k) ==
  [type |-> IF kind = "other" THEN "other" ELSE "analyze",
   requestId |-> IF kind = "analyze" THEN k ELSE Undefined,
   n |-> k]
MessageKinds == {"analyze", "unnumbered", "other"}
Inboxes ==
  UNION {{[k \in 1 .. len |-> MessageOf(f[k], k)] :
            f \in [1 .. len -> MessageKinds]} : len \in 0 .. MaxMessages}

InitWorker ==
  /\ wInbox \in Inboxes
  /\ isBusy = FALSE /\ currentRequestId = Null
  /\ cvPromise = 0 /\ loads = <<>> /\ importCount = 0
  /\ reactions = <<>> /\ wpc = "idle" /\ awaited = 0 /\ posted = <<>>
  /\ accepted = <<>> /\ lastCall = NoCall
  /\ SolveIdle /\ PourIdle /\ DriverIdle /\ ReconIdle /\ GridIdle
  /\ PageIdle

\* loadOpenCv: the promise before any signal
PendingLoad == [state |-> "pending", by |-> "none", finished |-> 0,
                late |-> FALSE]

\* loadOpenCv: finish(ok, val) called by signal s
FinishAgain(ld, ok, s) ==
  [state |-> IF ld.state # "pending" THEN ld.state
             ELSE IF ok THEN "fulfilled" ELSE "rejected",
   by |-> s, finished |-> ld.finished + 1,
   late |-> ld.state # "pending" \/ ld.late]
Finish(ld, ok, s) ==
  IF ld.state # "pending"
    THEN [ld EXCEPT !.late = TRUE]
    ELSE [state |-> IF ok THEN "fulfilled" ELSE "rejected", by |-> s,
          finished |-> ld.finished + 1, late |-> ld.late]

\* what the executor of a new load does before it returns: importScripts
\* throws, cv is usable at once, or the load waits for a signal
Executor == {"error", "ready", "pending"}
NewLoad(out) ==
  IF out = "pending" THEN PendingLoad
  ELSE Finish(PendingLoad, out = "ready", out)

ClearCacheOf(l) == [kind |-> "clearCache", load |-> l]
ResumeOn(l) == [kind |-> "resume", load |-> l]

\* loadOpenCv(cvVer), and the await of its caller when there is one
LoadOpenCv(out, waits) ==
  IF cvPromise # 0
    THEN /\ lastCall' = [n |-> lastCall.n + 1, cached |-> cvPromise,
                         returned |-> cvPromise]
         /\ reactions' =
              IF waits /\ loads[cvPromise].state # "pending"
                THEN Append(reactions, ResumeOn(cvPromise))
                ELSE reactions
         /\ UNCHANGED <<cvPromise, loads, importCount>>
    ELSE LET l == Len(loads) + 1
             ld == NewLoad(out)
         IN  /\ loads' = Append(loads, ld)
             /\ importCount' = importCount + 1
             /\ cvPromise' = l
             /\ lastCall' = [n |-> lastCall.n + 1, cached |-> 0,
                             returned |-> l]
             /\ reactions' =
                  reactions
                  \o (IF ld.state = "rejected" THEN <<ClearCacheOf(l)>>
                      ELSE <<>>)
                  \o (IF waits /\ ld.state # "pending" THEN <<ResumeOn(l)>>
                      ELSE <<>>)

\* self.onmessage: the requestId kept for the replies
ReqId(m) == IF IsNumber(m.requestId) THEN m.requestId ELSE Null

\* self.onmessage: the guard against concurrent analyses
RejectsNever(m) == FALSE
Rejects(m) == isBusy

\* self.onmessage up to its await
Receive ==
  /\ reactions = <<>>
  /\ wInbox # <<>>
  /\ wInbox' = Tail(wInbox)
  /\ LET m == Head(wInbox) IN
       IF m.type # "analyze"
         THEN UNCHANGED <<isBusy, currentRequestId, cvPromise, loads,
                          importCount, reactions, wpc, awaited, posted,
                          accepted, lastCall>>
       ELSE IF Rejects(m)
         THEN /\ posted' = Append(posted,
                   [type |-> MSG_ERROR, requestId |-> ReqId(m),
                    for |-> m.n])
              /\ UNCHANGED <<isBusy, currentRequestId, cvPromise, loads,
                             importCount, reactions, wpc, awaited,
                             accepted, lastCall>>
         ELSE /\ isBusy' = TRUE
              /\ currentRequestId' = ReqId(m)
              /\ accepted' = Append(accepted, m)
              /\ posted' = Append(posted,
                   [type |-> MSG_LOG, requestId |-> ReqId(m), for |-> m.n])
              /\ wpc' = "awaitCv"
              /\ \E out \in Executor : LoadOpenCv(out, TRUE)
              /\ awaited' = lastCall'.returned
  /\ UNCHANGED notWorker

\* a signal s reaches finish of load l; a load that settles queues its
\* reactions: the catch registered by loadOpenCv, then the awaiting handler
Signal(l, s) ==
  /\ reactions = <<>>
  /\ loads' = [loads EXCEPT ![l] = Finish(loads[l], s = "ready", s)]
  /\ reactions' =
       IF loads[l].state # "pending" THEN reactions
       ELSE (IF s # "ready" THEN <<ClearCacheOf(l)>> ELSE <<>>)
            \o (IF awaited = l THEN <<ResumeOn(l)>> ELSE <<>>)
  /\ UNCHANGED <<wInbox, isBusy, currentRequestId, cvPromise, importCount,
                 wpc, awaited, posted, accepted, lastCall, notWorker>>

\* Module.onRuntimeInitialized or the cv promise, with cv.Mat present
Ready == \E l \in 1 .. Len(loads) : Signal(l, "ready")
\* Module.onAbort
Abort == \E l \in 1 .. Len(loads) : Signal(l, "abort")
\* the runtime or the cv promise ends without a usable cv
LoadError == \E l \in 1 .. Len(loads) : Signal(l, "error")
\* the 25 s timer, cleared by finish
Timeout ==
  \E l \in 1 .. Len(loads) :
    loads[l].state = "pending" /\ Signal(l, "timeout")

\* the reaction of cvPromise.catch
ClearCache ==
  /\ reactions # <<>>
  /\ Head(reactions).kind = "clearCache"
  /\ reactions' = Tail(reactions)
  /\ cvPromise' = 0
  /\ UNCHANGED <<wInbox, isBusy, currentRequestId, loads, importCount, wpc,
                 awaited, posted, accepted, lastCall, notWorker>>

\* self.onmessage: the requestId of the terminal reply
ReplyTagNone == Null
ReplyTag == currentRequestId

\* self.onmessage after the await: the analysis, its reply, the finally
Resume ==
  /\ reactions # <<>>
  /\ Head(reactions).kind = "resume"
  /\ reactions' = Tail(reactions)
  /\ LET ld == loads[Head(reactions).load]
         k == accepted[Len(accepted)].n
     IN  \E throws \in BOOLEAN :
           posted' =
             posted
             \o (IF ld.state = "fulfilled"
                   THEN <<[type |-> MSG_LOG, requestId |-> currentRequestId,
                           for |-> k]>>
                   ELSE <<>>)
             \o <<[type |-> IF ld.state = "fulfilled" /\ ~throws
                              THEN MSG_RESULT ELSE MSG_ERROR,
                   requestId |-> ReplyTag, for |-> k]>>
  /\ isBusy' = FALSE
  /\ currentRequestId' = Null
  /\ wpc' = "idle"
  /\ awaited' = 0
  /\ UNCHANGED <<wInbox, cvPromise, loads, importCount, accepted, lastCall,
                 notWorker>>

NextWorker ==
  \/ Receive
  \/ Ready
  \/ Abort
  \/ LoadError
  \/ Timeout
  \/ ClearCache
  \/ Resume

SpecWorker == InitWorker /\ [][NextWorker]_vars

\* the timer of a pending load fires unless the load settles before, and
\* queued reactions run
SpecWorkerLive ==
  /\ SpecWorker
  /\ WF_vars(Timeout) /\ WF_vars(ClearCache) /\ WF_vars(Resume)

(***************************************************************************)
(* SpecCv: loadOpenCv called at any task of the worker, with the signals   *)
(* of the OpenCV runtime and the timer in between.                         *)
(***************************************************************************)
MaxCalls == 3        \* calls of loadOpenCv

InitCv ==
  /\ WorkerIdle
  /\ SolveIdle /\ PourIdle /\ DriverIdle /\ ReconIdle /\ GridIdle
  /\ PageIdle

\* a caller that only takes the promise
CallLoadOpenCv ==
  /\ reactions = <<>>
  /\ lastCall.n < MaxCalls
  /\ \E out \in Executor : LoadOpenCv(out, FALSE)
  /\ UNCHANGED <<wInbox, isBusy, currentRequestId, wpc, awaited, posted,
                 accepted, notWorker>>

NextCv ==
  \/ CallLoadOpenCv
  \/ Ready
  \/ Abort
  \/ LoadError
  \/ Timeout
  \/ ClearCache

SpecCv == InitCv /\ [][NextCv]_vars

\* the timer of a pending load fires unless the load settles before, and
\* the queued catch reaction runs
SpecCvLive == SpecCv /\ WF_vars(Timeout) /\ WF_vars(ClearCache)

\* everything of the worker but its inbox and the messages it has posted
WorkerState ==
  <<isBusy, currentRequestId, cvPromise, loads, importCount, reactions, wpc,
    awaited, accepted, lastCall>>

\* the terminal replies posted for the k-th message
TerminalFor(k) ==
  {i \in 1 .. Len(posted) :
     posted[i].for = k /\ posted[i].type \in {MSG_RESULT, MSG_ERROR}}

\* the accepted messages that have no terminal reply yet
OpenAnalyses ==
  {i \in 1 .. Len(accepted) : TerminalFor(accepted[i].n) = {}}

\* C23: the worker never runs two analyses at once.  An 'analyze' message
\* received while isBusy is answered by one error reply carrying the
\* message's requestId (null when it is not a number) and leaves isBusy,
\* currentRequestId and the running analysis as they are; a message of any
\* other type changes nothing but the inbox; an analysis is accepted only
\* when none is running.
C23_OneAnalysisAtATime ==
  /\ [](Cardinality(OpenAnalyses) <= 1 /\ (isBusy <=> OpenAnalyses # {}))
  /\ [][(wInbox # <<>> /\ wInbox' = Tail(wInbox)) =>
          LET m == Head(wInbox) IN
            /\ (m.type = "analyze" /\ isBusy) =>
                 /\ posted' = Append(posted,
                      [type |-> MSG_ERROR,
                       requestId |-> IF m.requestId >= 0 THEN m.requestId
                                     ELSE Null,
                       for |-> m.n])
                 /\ UNCHANGED WorkerState
            /\ m.type # "analyze" => UNCHANGED <<WorkerState, posted>>
            /\ Len(accepted') > Len(accepted) => ~isBusy]_vars

\* the second message was refused with its own id while the first is running
C23_Witness ==
  /\ isBusy /\ currentRequestId = 1 /\ wpc = "awaitCv"
  /\ Len(accepted) = 1
  /\ \E i \in 1 .. Len(posted) :
       posted[i] = [type |-> MSG_ERROR, requestId |-> 2, for |-> 2]

\* C24: every accepted 'analyze' message gets exactly one terminal reply,
\* 'result' or 'error', tagged with the request's id (null when the
\* message's requestId is not a number); the step that posts it leaves isBusy
\* false and currentRequestId null; and the reply does come, whether the
\* load succeeds, fails or times out and whether the analysis throws.
C24_OneTerminalReply ==
  /\ [](\A i \in 1 .. Len(accepted) :
          /\ Cardinality(TerminalFor(accepted[i].n)) <= 1
          /\ \A j \in TerminalFor(accepted[i].n) :
               posted[j].requestId =
                 IF accepted[i].requestId >= 0 THEN accepted[i].requestId
                 ELSE Null)
  /\ [][(\E i \in 1 .. Len(accepted) :
           TerminalFor(accepted[i].n) = {} /\ TerminalFor(accepted[i].n)' # {})
        => (isBusy' = FALSE /\ currentRequestId' = Null)]_vars
  /\ \A k \in 1 .. MaxMessages :
       (\E i \in 1 .. Len(accepted) : accepted[i].n = k)
         ~> (/\ Cardinality(TerminalFor(k)) = 1
             /\ ~isBusy /\ currentRequestId = Null)

\* a request whose load timed out has its error reply, and a later request
\* has its result
C24_Witness ==
  /\ Len(accepted) = 2 /\ ~isBusy /\ currentRequestId = Null
  /\ loads[1].by = "timeout"
  /\ \E j \in TerminalFor(accepted[1].n) : posted[j].type = MSG_ERROR
  /\ \E j \in TerminalFor(accepted[2].n) : posted[j].type = MSG_RESULT

\* C28: a loadOpenCv call made while the cached load is pending or has
\* succeeded returns that same promise and imports nothing; a load is
\* settled by the first signal that reaches it (ready, abort, error or the
\* timer), once, and later signals change nothing; once the reaction of a
\* failed load has run the cache is empty and the next call starts a new
\* load with a new import; every load settles.
C28_CachedAndRetryable ==
  /\ [][lastCall'.n # lastCall.n =>
          IF cvPromise # 0
            THEN /\ loads[cvPromise].state \in {"pending", "fulfilled"}
                 /\ lastCall'.returned = cvPromise
                 /\ UNCHANGED <<cvPromise, loads, importCount>>
            ELSE /\ lastCall'.returned = Len(loads) + 1
                 /\ cvPromise' = Len(loads) + 1
                 /\ Len(loads') = Len(loads) + 1
                 /\ importCount' = importCount + 1]_vars
  /\ [](\A l \in 1 .. Len(loads) :
          /\ loads[l].finished <= 1
          /\ loads[l].state = "pending" <=> loads[l].finished = 0)
  /\ [][\A l \in 1 .. Len(loads) :
          loads[l].state # "pending" =>
            /\ loads'[l].state = loads[l].state
            /\ loads'[l].by = loads[l].by]_vars
  /\ [](reactions = <<>> =>
          IF loads = <<>> \/ loads[Len(loads)].state = "rejected"
            THEN cvPromise = 0
            ELSE cvPromise = Len(loads))
  /\ \A l \in 1 .. MaxCalls :
       (l <= Len(loads))
         ~> (l <= Len(loads) /\ loads[l].state # "pending")

\* the first load timed out and ignored a later signal, the second load
\* succeeded, and the third call got the second load back
C28_Witness ==
  /\ Len(loads) = 2 /\ importCount = 2
  /\ loads[1].by = "timeout" /\ loads[1].late
  /\ loads[2].state = "fulfilled"
  /\ lastCall = [n |-> 3, cached |-> 2, returned |-> 2]
====
